---- MODULE Spec2Model ----
(***************************************************************************)
(* DockerManager (src-tauri/src/docker.rs): the engine handle behind one   *)
(* async mutex, the registry of running containers behind another, and     *)
(* the operations connect, is_available, run, stop and get_running, each   *)
(* cut at its await points.  The container engine is the environment.      *)
(***************************************************************************)
EXTENDS Integers, Sequences, FiniteSets, TLC

\* ------------------------------------------------------------------------
\* Bounds
\* ------------------------------------------------------------------------
MaxCalls == 3
MaxChunks == 1
NumTasks == 2
MaxElapsed == 1
MaxCommands == 2
MaxPathLen == 3

\* ------------------------------------------------------------------------
\* Values
\* ------------------------------------------------------------------------
Tasks == 1..NumTasks
NoTask == 0

PrefixLen == 8

IdA == <<"a", "a", "a", "a", "a", "a", "a", "a", "1">>
IdA2 == <<"a", "a", "a", "a", "a", "a", "a", "a", "2">>
IdB == <<"b", "b", "b", "b", "b", "b", "b", "b", "1">>
IdShort == <<"c", "c", "c">>

\* an id of four characters outside ASCII, each of two bytes in UTF-8
IdWide == <<"U+00E9", "U+00E9", "U+00E9", "U+00E9">>

\* char::len_utf8
len_utf8(ch) == IF ch = "U+00E9" THEN 2 ELSE 1

\* str::len: the length of a string in bytes
RECURSIVE ByteLen(_)
ByteLen(s) == IF s = <<>> THEN 0 ELSE len_utf8(Head(s)) + ByteLen(Tail(s))

\* str::is_char_boundary(n): the first n bytes are whole characters
is_char_boundary(s, n) == \E k \in 0..Len(s) : ByteLen(SubSeq(s, 1, k)) = n

\* &s[..n], which panics unless n is a character boundary of s
SliceTo(s, n) == SubSeq(s, 1, CHOOSE k \in 0..Len(s) : ByteLen(SubSeq(s, 1, k)) = n)

ExecIds == {IdA, IdA2, IdB, IdShort}

\* Option<T>
None == [tag |-> "None"]
Some(v) == [tag |-> "Some", val |-> v]
UnwrapOr(opt, default) == IF opt.tag = "Some" THEN opt.val ELSE default

\* Default resource limits
DEFAULT_MEMORY_LIMIT == 256 * 1024 * 1024
DEFAULT_CPU_PERIOD == 100000
DEFAULT_CPU_QUOTA == 50000
DEFAULT_TIMEOUT_SECONDS == 30

\* the requests of run_code: no limits of their own, any id, traced or not
ExecutionRequest ==
    [id : ExecIds, image : {"python:3.12-slim"}, command : {<<"python", "main">>},
     working_dir : {"/workspace"}, source_path : {"/project"}, env : {<<>>},
     memory_limit : {None}, cpu_quota : {None}, timeout : {None},
     step_mode : {FALSE}, trace_io : BOOLEAN]

\* the requests of any caller of run, for one execution id: every choice of
\* the three limits, with the other fields as run_code sets them or all
\* of them different
AnyExecutionRequest ==
    [id : {IdA}, image : {"python:3.12-slim"}, command : {<<"python", "main">>},
     working_dir : {"/workspace"}, source_path : {"/project"}, env : {<<>>},
     memory_limit : {None, Some(1024)}, cpu_quota : {None, Some(100000)},
     timeout : {None, Some(1)},
     step_mode : {FALSE}, trace_io : {FALSE}]
    \cup
    [id : {IdA}, image : {"node:20-slim"}, command : {<<"sh", "-c", "rm -rf /">>},
     working_dir : {"/"}, source_path : {"/"}, env : {<< <<"K", "v">> >>},
     memory_limit : {None, Some(1024)}, cpu_quota : {None, Some(100000)},
     timeout : {None, Some(1)},
     step_mode : {TRUE}, trace_io : {TRUE}]

NoRequest ==
    [id |-> <<>>, image |-> "", command |-> <<>>, working_dir |-> "", source_path |-> "",
     env |-> <<>>, memory_limit |-> None, cpu_quota |-> None, timeout |-> None,
     step_mode |-> FALSE, trace_io |-> FALSE]

\* Text the engine puts in an error
EngineMsgs == {"e1"}

\* Bytes a container writes: "a" is valid UTF-8, "BAD" is not
Chunks == {<<"a">>, <<"BAD">>}
Streams == {"stdout", "stderr"}
LogOutput == [stream : Streams, message : Chunks]

ExitCodes == {0, 1}
SIGKILLED == 137

VARIABLES
    client,               \* "None" | "Some": the Option<Docker> behind the client mutex
    clientLock,           \* the task that holds the client mutex, or NoTask
    running_containers,   \* the registry: execution id -> ContainerInfo
    registryLock,         \* the task that holds the registry mutex, or NoTask
    containers,           \* the engine: container id (index) -> container
    ncalls,               \* operations invoked so far
    op,                   \* per task: the operation it executes
    pc,                   \* per task: the await point it is suspended at
    request,              \* per task: the ExecutionRequest of run, the id of stop
    container,            \* per task: container.id of run, info.id of stop (0: none)
    timeout,              \* per task: the seconds the timed wait of run is given (0: not armed)
    wait_result,          \* per task: what the timed wait of run yielded
    outcome,              \* per task: (exit_code, timed_out) of run
    output,               \* per task: stdout, stderr and io_events of run
    issued,               \* per task: the engine calls this invocation has made
    ret,                  \* per task: the value the operation returned
    configs,              \* ServiceManager: service id -> ServiceConfig
    processes,            \* ServiceManager: service id -> ServiceProcess
    children,             \* the child processes spawned so far (index: the child)
    child                 \* per task: the child that start has spawned (0: none)

vars == <<client, clientLock, running_containers, registryLock, containers,
          ncalls, op, pc, request, container, timeout, wait_result, outcome,
          output, issued, ret, configs, processes, children, child>>

services == <<configs, processes, children, child>>

shared == <<client, clientLock, running_containers, registryLock, containers>>
locals == <<request, container, timeout, wait_result, outcome, output, issued, ret>>

\* ------------------------------------------------------------------------
\* Results and errors (error.rs)
\* ------------------------------------------------------------------------
NoRet == [tag |-> "None"]
Ok(v) == [tag |-> "Ok", val |-> v]
Err(e) == [tag |-> "Err", err |-> e]

\* ShellError::Docker(String)
ShellErrorDocker(msg) == [kind |-> "Docker", msg |-> msg]

\* a String is the sequence of its parts: "..".into(), e.to_string()
Literal(str) == <<str>>

\* format!("<prefix>{}", e)
Format(prefix, e) == <<prefix, e>>

NoOutcome == [exit_code |-> 0, timed_out |-> FALSE]

\* no timed wait has begun
NotArmed == [tag |-> "None"]

\* Result<Option<Result<ContainerWaitResponse, _>>, Elapsed>
NotWaited == [tag |-> "None"]
Exited(status_code) == [tag |-> "Exited", status_code |-> status_code]
Ambiguous == [tag |-> "Ambiguous"]
Elapsed == [tag |-> "Elapsed"]
NoOutput == [stdout |-> <<>>, stderr |-> <<>>, io_events |-> <<>>]

EmptyMap == [k \in {} |-> NoRet]

Init ==
    /\ client = "None"
    /\ clientLock = NoTask
    /\ running_containers = EmptyMap
    /\ registryLock = NoTask
    /\ containers = <<>>
    /\ ncalls = 0
    /\ op = [t \in Tasks |-> "none"]
    /\ pc = [t \in Tasks |-> "idle"]
    /\ request = [t \in Tasks |-> NoRequest]
    /\ container = [t \in Tasks |-> 0]
    /\ timeout = [t \in Tasks |-> NotArmed]
    /\ wait_result = [t \in Tasks |-> NotWaited]
    /\ outcome = [t \in Tasks |-> NoOutcome]
    /\ output = [t \in Tasks |-> NoOutput]
    /\ issued = [t \in Tasks |-> <<>>]
    /\ ret = [t \in Tasks |-> NoRet]
    /\ configs = EmptyMap
    /\ processes = EmptyMap
    /\ children = <<>>
    /\ child = [t \in Tasks |-> 0]

\* ------------------------------------------------------------------------
\* A caller invokes an operation of the manager on a free task
\* ------------------------------------------------------------------------
Returned(t) == pc[t] \in {"done", "panicked"}

\* task slots are interchangeable: a call takes the lowest free one
Invoke(t, o, first, r) ==
    /\ pc[t] = "idle"
    /\ \A u \in Tasks : u < t => pc[u] # "idle"
    /\ ncalls < MaxCalls
    /\ ncalls' = ncalls + 1
    /\ op' = [op EXCEPT ![t] = o]
    /\ pc' = [pc EXCEPT ![t] = first]
    /\ request' = [request EXCEPT ![t] = r]
    /\ UNCHANGED <<shared, services, container, timeout, wait_result, outcome, output, issued, ret>>

CallConnect(t) == Invoke(t, "connect", "c_ping", NoRequest)
CallIsAvailable(t) == Invoke(t, "is_available", "a_lock", NoRequest)
CallRun(t) == \E r \in ExecutionRequest : Invoke(t, "run", "r_lock", r)
\* (variant) a stop call cancels the deadline of the run it names
CallStop_CancelsTimeout(t) ==
    \E id \in ExecIds :
        /\ pc[t] = "idle"
        /\ \A u \in Tasks : u < t => pc[u] # "idle"
        /\ ncalls < MaxCalls
        /\ ncalls' = ncalls + 1
        /\ op' = [op EXCEPT ![t] = "stop"]
        /\ pc' = [pc EXCEPT ![t] = "s_lock"]
        /\ request' = [request EXCEPT ![t] = [NoRequest EXCEPT !.id = id]]
        /\ timeout' = [u \in Tasks |-> IF op[u] = "run" /\ request[u].id = id
                                       THEN NotArmed ELSE timeout[u]]
        /\ UNCHANGED <<shared, services, container, wait_result, outcome, output, issued, ret>>

CallStop(t) == \E id \in ExecIds : Invoke(t, "stop", "s_lock", [NoRequest EXCEPT !.id = id])
CallGetRunning(t) == Invoke(t, "get_running", "g_lock", NoRequest)

\* the caller takes what the call returned (or its task is gone after a
\* panic) and the slot is free again
Consume(t) ==
    /\ Returned(t)
    /\ op' = [op EXCEPT ![t] = "none"]
    /\ pc' = [pc EXCEPT ![t] = "idle"]
    /\ request' = [request EXCEPT ![t] = NoRequest]
    /\ container' = [container EXCEPT ![t] = 0]
    /\ timeout' = [timeout EXCEPT ![t] = NotArmed]
    /\ wait_result' = [wait_result EXCEPT ![t] = NotWaited]
    /\ outcome' = [outcome EXCEPT ![t] = NoOutcome]
    /\ output' = [output EXCEPT ![t] = NoOutput]
    /\ issued' = [issued EXCEPT ![t] = <<>>]
    /\ ret' = [ret EXCEPT ![t] = NoRet]
    /\ UNCHANGED <<shared, ncalls, services>>

\* the task returns v; every guard it holds is dropped
Return(t, v) ==
    /\ pc' = [pc EXCEPT ![t] = "done"]
    /\ ret' = [ret EXCEPT ![t] = v]

Goto(t, l) == pc' = [pc EXCEPT ![t] = l]

Issue(t, call, cid) == issued' = [issued EXCEPT ![t] = Append(@, [call |-> call, id |-> cid])]

\* a call that names no container (connect, ping), with whether it succeeded
Probe(t, call, ok) ==
    issued' = [issued EXCEPT ![t] = Append(@, [call |-> call, id |-> 0, ok |-> ok])]

\* ------------------------------------------------------------------------
\* connect (also the tail of is_available when no handle is stored)
\* ------------------------------------------------------------------------
\* (variant) is_available hands the error of connect() on
ConnectFail_Propagates(t) ==
    /\ pc[t] = "c_ping"
    /\ \E e \in EngineMsgs, atPing \in BOOLEAN :
          LET err == IF atPing
                     THEN ShellErrorDocker(Format("Failed to connect to Docker: ", e))
                     ELSE ShellErrorDocker(Literal(e))
          IN /\ Probe(t, IF atPing THEN "ping" ELSE "connect", FALSE)
             /\ Return(t, Err(err))
    /\ UNCHANGED <<shared, ncalls, services, op, request, container, timeout, wait_result, outcome, output>>

\* connect_with_local_defaults() fails, or the ping fails
ConnectFail(t) ==
    /\ pc[t] = "c_ping"
    /\ \E e \in EngineMsgs, atPing \in BOOLEAN :
          LET err == IF atPing
                     THEN ShellErrorDocker(Format("Failed to connect to Docker: ", e))
                     ELSE ShellErrorDocker(Literal(e))
          IN /\ Probe(t, IF atPing THEN "ping" ELSE "connect", FALSE)
             /\ IF op[t] = "is_available"
                THEN Return(t, Ok(FALSE))
                ELSE Return(t, Err(err))
    /\ UNCHANGED <<shared, ncalls, services, op, request, container, timeout, wait_result, outcome, output>>

\* the ping succeeded; next is self.client.lock().await
ConnectPingOk(t) ==
    /\ pc[t] = "c_ping"
    /\ Probe(t, "ping", TRUE)
    /\ Goto(t, "c_lock")
    /\ UNCHANGED <<shared, ncalls, services, op, request, container, timeout, wait_result, outcome, output, ret>>

\* *client = Some(docker); Ok(())
ConnectStore(t) ==
    /\ pc[t] = "c_lock"
    /\ clientLock = NoTask
    /\ client' = "Some"
    /\ Return(t, Ok(TRUE))
    /\ UNCHANGED <<clientLock, running_containers, registryLock, containers,
                   ncalls, services, op, request, container, timeout, wait_result, outcome, output, issued>>

\* ------------------------------------------------------------------------
\* is_available
\* ------------------------------------------------------------------------
\* (variant) the guard is not dropped before connect() is called
IsAvailableLock_KeepsGuard(t) ==
    /\ pc[t] = "a_lock"
    /\ clientLock = NoTask
    /\ clientLock' = t
    /\ IF client = "Some" THEN Goto(t, "a_ping") ELSE Goto(t, "c_ping")
    /\ UNCHANGED <<client, running_containers, registryLock, containers,
                   ncalls, services, op, locals>>

\* let client = self.client.lock().await; with a handle the guard is kept
\* over the ping, without one it is dropped and connect() runs
IsAvailableLock(t) ==
    /\ pc[t] = "a_lock"
    /\ clientLock = NoTask
    /\ IF client = "Some"
       THEN /\ clientLock' = t
            /\ Goto(t, "a_ping")
       ELSE /\ clientLock' = NoTask
            /\ Goto(t, "c_ping")
    /\ UNCHANGED <<client, running_containers, registryLock, containers,
                   ncalls, services, op, locals>>

\* docker.ping().await.is_ok()
IsAvailablePing(t) ==
    /\ pc[t] = "a_ping"
    /\ \E a \in {Ok("pong")} \cup {Err(e) : e \in EngineMsgs} :
          /\ Return(t, Ok(a.tag = "Ok"))
          /\ Probe(t, "ping", a.tag = "Ok")
    /\ clientLock' = NoTask
    /\ UNCHANGED <<client, running_containers, registryLock, containers,
                   ncalls, services, op, request, container, timeout, wait_result, outcome, output>>

\* ------------------------------------------------------------------------
\* The container engine
\* ------------------------------------------------------------------------
NoConfig == [tag |-> "None"]

NewContainer(name, config) ==
    [name |-> name, config |-> config, state |-> "created", status_code |-> 0, log |-> <<>>]

\* the engine refuses a name that a container not yet removed carries
NameInUse(name) ==
    \E c \in DOMAIN containers :
        containers[c].state # "removed" /\ containers[c].name = name

\* the process of a running container ends by itself
ContainerExit(c) ==
    /\ containers[c].state = "running"
    /\ \E code \in ExitCodes :
          containers' = [containers EXCEPT ![c].state = "exited", ![c].status_code = code]
    /\ UNCHANGED <<client, clientLock, running_containers, registryLock, ncalls, services, op, pc, locals>>

\* the process of a running container writes to stdout or stderr
ContainerWrite(c) ==
    /\ containers[c].state = "running"
    /\ Len(containers[c].log) < MaxChunks
    /\ \E l \in LogOutput :
          containers' = [containers EXCEPT ![c].log = Append(@, l)]
    /\ UNCHANGED <<client, clientLock, running_containers, registryLock, ncalls, services, op, pc, locals>>

\* kill_container: only a running container can be killed
Killed(c) == [containers EXCEPT ![c].state = "exited", ![c].status_code = SIGKILLED]

\* remove_container without force: only a container that is not running;
\* nothing of a removed container is left but its id
Removable(c) == containers[c].state \in {"created", "exited"}

Removed(c) ==
    [containers EXCEPT ![c] = [name |-> <<>>, config |-> NoConfig, state |-> "removed",
                               status_code |-> 0, log |-> <<>>]]

\* ------------------------------------------------------------------------
\* The registry (HashMap<String, ContainerInfo>)
\* ------------------------------------------------------------------------
\* chrono::Utc::now() when the entry of container cid is built: the instant
\* is not measured, it is named after the registration it belongs to
UtcNow(cid) == <<"registered", cid>>

ContainerInfo(cid, execution_id, status) ==
    [id |-> cid, execution_id |-> execution_id, started_at |-> UtcNow(cid), status |-> status]

Insert(map, k, v) == [x \in DOMAIN map \cup {k} |-> IF x = k THEN v ELSE map[x]]

Remove(map, k) == [x \in DOMAIN map \ {k} |-> map[x]]

\* if let Some(info) = running.get_mut(k) { info.status = status }
SetStatus(map, k, status) ==
    IF k \in DOMAIN map THEN [map EXCEPT ![k].status = status] ELSE map

\* running.values().cloned().collect()
Values(map) == {map[k] : k \in DOMAIN map}

\* ------------------------------------------------------------------------
\* run
\* ------------------------------------------------------------------------
\* (variant) a request in step mode gets the default network, for a debugger
\* to attach
HostConfig_StepModeNetwork(req) ==
    [memory |-> UnwrapOr(req.memory_limit, DEFAULT_MEMORY_LIMIT),
     cpu_period |-> DEFAULT_CPU_PERIOD,
     cpu_quota |-> UnwrapOr(req.cpu_quota, DEFAULT_CPU_QUOTA),
     network_mode |-> IF req.step_mode THEN "bridge" ELSE "none",
     mounts |-> << [target |-> "/workspace", source |-> req.source_path,
                    typ |-> "BIND", read_only |-> TRUE] >>]

\* HostConfig { memory, cpu_period, cpu_quota, network_mode, mounts, .. }
HostConfig(req) ==
    [memory |-> UnwrapOr(req.memory_limit, DEFAULT_MEMORY_LIMIT),
     cpu_period |-> DEFAULT_CPU_PERIOD,
     cpu_quota |-> UnwrapOr(req.cpu_quota, DEFAULT_CPU_QUOTA),
     network_mode |-> "none",
     mounts |-> << [target |-> "/workspace", source |-> req.source_path,
                    typ |-> "BIND", read_only |-> TRUE] >>]

\* request.env.iter().map(|(k, v)| format!("{}={}", k, v)).collect()
EnvList(env) == [i \in DOMAIN env |-> <<env[i][1], "=", env[i][2]>>]

\* Config { image, cmd, working_dir, env, host_config, .. }
Config(req) ==
    [image |-> req.image, cmd |-> req.command, working_dir |-> req.working_dir,
     env |-> EnvList(req.env), host_config |-> HostConfig(req)]

\* (variant) the timeout of the request is not looked at
TimeoutSeconds_Ignored(req) == DEFAULT_TIMEOUT_SECONDS

\* Duration::from_secs(request.timeout.unwrap_or(DEFAULT_TIMEOUT_SECONDS))
TimeoutSeconds(req) == UnwrapOr(req.timeout, DEFAULT_TIMEOUT_SECONDS)

\* (variant) every container gets a name of its own
ContainerName_Serial(execution_id) ==
    <<"shell-exec-">> \o SliceTo(execution_id, PrefixLen) \o <<Len(containers)>>

\* format!("shell-exec-{}", &execution_id[..8])
ContainerName(execution_id) == <<"shell-exec-">> \o SliceTo(execution_id, PrefixLen)

\* String::from_utf8_lossy(&message).to_string()
FromUtf8Lossy(message) ==
    [i \in 1..Len(message) |-> IF message[i] = "BAD" THEN "REPLACEMENT" ELSE message[i]]

IoEvent(timestamp_ms, stream, data) ==
    [timestamp_ms |-> timestamp_ms, stream |-> stream, data |-> data]

\* (variant) the event carries the bytes as they came, the output the
\* decoded text
Collect_TracesRaw(acc, item, at, trace_io) ==
    IF item.tag # "Ok" THEN acc
    ELSE LET msg == FromUtf8Lossy(item.val.message)
             events == IF trace_io
                       THEN Append(acc.io_events, IoEvent(at, item.val.stream, item.val.message))
                       ELSE acc.io_events
         IN IF item.val.stream = "stdout"
            THEN [stdout |-> acc.stdout \o msg, stderr |-> acc.stderr, io_events |-> events]
            ELSE IF item.val.stream = "stderr"
            THEN [stdout |-> acc.stdout, stderr |-> acc.stderr \o msg, io_events |-> events]
            ELSE acc

\* (variant) only what is written to stdout is traced
Collect_StderrUntraced(acc, item, at, trace_io) ==
    IF item.tag # "Ok" THEN acc
    ELSE LET msg == FromUtf8Lossy(item.val.message)
             events == IF trace_io /\ item.val.stream = "stdout"
                       THEN Append(acc.io_events, IoEvent(at, item.val.stream, msg))
                       ELSE acc.io_events
         IN IF item.val.stream = "stdout"
            THEN [stdout |-> acc.stdout \o msg, stderr |-> acc.stderr, io_events |-> events]
            ELSE IF item.val.stream = "stderr"
            THEN [stdout |-> acc.stdout, stderr |-> acc.stderr \o msg, io_events |-> events]
            ELSE acc

\* one turn of the while-let loop over the log stream; at is what
\* start_time.elapsed() reads in this turn
Collect(acc, item, at, trace_io) ==
    IF item.tag # "Ok" THEN acc
    ELSE LET msg == FromUtf8Lossy(item.val.message)
             events == IF trace_io
                       THEN Append(acc.io_events, IoEvent(at, item.val.stream, msg))
                       ELSE acc.io_events
         IN IF item.val.stream = "stdout"
            THEN [stdout |-> acc.stdout \o msg, stderr |-> acc.stderr, io_events |-> events]
            ELSE IF item.val.stream = "stderr"
            THEN [stdout |-> acc.stdout, stderr |-> acc.stderr \o msg, io_events |-> events]
            ELSE acc

\* (variant) the loop ends at the first error item (while let Some(Ok(log)))
RECURSIVE Drain_StopsAtError(_, _, _, _)
Drain_StopsAtError(acc, items, readings, trace_io) ==
    IF items = <<>> THEN acc
    ELSE IF Head(items).tag # "Ok" THEN acc
    ELSE Drain_StopsAtError(Collect(acc, Head(items), Head(readings), trace_io),
                            Tail(items), Tail(readings), trace_io)

RECURSIVE Drain(_, _, _, _)
Drain(acc, items, readings, trace_io) ==
    IF items = <<>> THEN acc
    ELSE Drain(Collect(acc, Head(items), Head(readings), trace_io),
               Tail(items), Tail(readings), trace_io)

\* Instant is monotonic: the readings of start_time.elapsed() in n turns of
\* the loop never decrease
Readings(n) ==
    {r \in [1..n -> 0..MaxElapsed] : \A i \in 1..n, j \in 1..n : i <= j => r[i] <= r[j]}

\* if let Ok(log) = log
IsOkItem(item) == item.tag = "Ok"

\* what the engine delivers on the logs stream of container c: the log so
\* far, or a part of it cut short by an error item, or all of it with an
\* error item in between
LogStreams(c) ==
    LET log == containers[c].log
        okItems(m, n) == [i \in 1..(n - m + 1) |-> Ok(log[m + i - 1])]
    IN {okItems(1, Len(log))}
       \cup {okItems(1, n) \o <<Err(e)>> : n \in 0..Len(log), e \in EngineMsgs}
       \cup {okItems(1, n) \o <<Err(e)>> \o okItems(n + 1, Len(log)) :
                 n \in 0..Len(log), e \in EngineMsgs}

ExecutionResult(t) ==
    [id |-> request[t].id,
     exit_code |-> outcome[t].exit_code,
     stdout |-> output[t].stdout,
     stderr |-> output[t].stderr,
     timed_out |-> outcome[t].timed_out,
     trace |-> IF request[t].trace_io
               THEN [tag |-> "Some", steps |-> <<>>, io_events |-> output[t].io_events]
               ELSE [tag |-> "None"]]

\* (variant) the guard of the handle lock is not released by the panic
RunLock_PanicKeepsGuard(t) ==
    /\ pc[t] = "r_lock"
    /\ clientLock = NoTask
    /\ IF client = "None"
       THEN /\ Return(t, Err(ShellErrorDocker(Literal("Docker not connected"))))
            /\ clientLock' = NoTask
       ELSE IF ~is_char_boundary(request[t].id, PrefixLen)
       THEN /\ Goto(t, "panicked")
            /\ clientLock' = t
            /\ UNCHANGED ret
       ELSE /\ Goto(t, "create")
            /\ clientLock' = t
            /\ UNCHANGED ret
    /\ UNCHANGED <<client, running_containers, registryLock, containers, ncalls, services, op,
                   request, container, timeout, wait_result, outcome, output, issued>>

\* let client = self.client.lock().await; the handle is taken or the call
\* fails; then the configuration and the container name are built
RunLock(t) ==
    /\ pc[t] = "r_lock"
    /\ clientLock = NoTask
    /\ IF client = "None"
       THEN /\ Return(t, Err(ShellErrorDocker(Literal("Docker not connected"))))
            /\ clientLock' = NoTask
       ELSE IF ~is_char_boundary(request[t].id, PrefixLen)
       THEN /\ Goto(t, "panicked")
            /\ clientLock' = NoTask
            /\ UNCHANGED ret
       ELSE /\ Goto(t, "create")
            /\ clientLock' = t
            /\ UNCHANGED ret
    /\ UNCHANGED <<client, running_containers, registryLock, containers, ncalls, services, op,
                   request, container, timeout, wait_result, outcome, output, issued>>

\* (variant) the entry is registered before the engine has answered
RunCreateFail_Registers(t) ==
    /\ pc[t] = "create"
    /\ \E e \in EngineMsgs :
          Return(t, Err(ShellErrorDocker(Format("Failed to create container: ", e))))
    /\ running_containers' = Insert(running_containers, request[t].id,
                                    ContainerInfo(0, request[t].id, "Starting"))
    /\ Issue(t, "create", 0)
    /\ clientLock' = NoTask
    /\ UNCHANGED <<client, registryLock, containers, ncalls, services, op,
                   request, container, timeout, wait_result, outcome, output>>

\* create_container fails
RunCreateFail(t) ==
    /\ pc[t] = "create"
    /\ \E e \in EngineMsgs \cup (IF NameInUse(ContainerName(request[t].id)) THEN {"conflict"} ELSE {}) :
          Return(t, Err(ShellErrorDocker(Format("Failed to create container: ", e))))
    /\ Issue(t, "create", 0)
    /\ clientLock' = NoTask
    /\ UNCHANGED <<client, running_containers, registryLock, containers, ncalls, services, op,
                   request, container, timeout, wait_result, outcome, output>>

\* create_container succeeds; next is self.running_containers.lock().await
RunCreateOk(t) ==
    /\ pc[t] = "create"
    /\ ~NameInUse(ContainerName(request[t].id))
    /\ LET cid == Len(containers) + 1
       IN /\ containers' = Append(containers, NewContainer(ContainerName(request[t].id),
                                                          Config(request[t])))
          /\ container' = [container EXCEPT ![t] = cid]
          /\ Issue(t, "create", cid)
    /\ Goto(t, "reg_insert")
    /\ UNCHANGED <<client, clientLock, running_containers, registryLock, ncalls, services, op,
                   request, timeout, wait_result, outcome, output, ret>>

\* running.insert(execution_id, ContainerInfo { .. status: Starting })
RunRegister(t) ==
    /\ pc[t] = "reg_insert"
    /\ registryLock = NoTask
    /\ running_containers' = Insert(running_containers, request[t].id,
                                    ContainerInfo(container[t], request[t].id, "Starting"))
    /\ Goto(t, "start")
    /\ UNCHANGED <<client, clientLock, registryLock, containers, ncalls, services, op, locals>>

\* start_container fails: the ? operator returns the error
RunStartFail(t) ==
    /\ pc[t] = "start"
    /\ \E e \in EngineMsgs :
          Return(t, Err(ShellErrorDocker(Format("Failed to start container: ", e))))
    /\ Issue(t, "start", container[t])
    /\ clientLock' = NoTask
    /\ UNCHANGED <<client, running_containers, registryLock, containers, ncalls, services, op,
                   request, container, timeout, wait_result, outcome, output>>

RunStartOk(t) ==
    /\ pc[t] = "start"
    /\ containers' = [containers EXCEPT ![container[t]].state = "running"]
    /\ Issue(t, "start", container[t])
    /\ Goto(t, "reg_update")
    /\ UNCHANGED <<client, clientLock, running_containers, registryLock, ncalls, services, op,
                   request, container, timeout, wait_result, outcome, output, ret>>

\* (variant) every entry of the registry is marked, not only this one
RunMarkRunning_All(t) ==
    /\ pc[t] = "reg_update"
    /\ registryLock = NoTask
    /\ running_containers' = [k \in DOMAIN running_containers |->
                                 [running_containers[k] EXCEPT !.status = "Running"]]
    /\ timeout' = [timeout EXCEPT ![t] = Some(TimeoutSeconds(request[t]))]
    /\ Goto(t, "wait")
    /\ UNCHANGED <<client, clientLock, registryLock, containers, ncalls, services, op,
                   request, container, wait_result, outcome, output, issued, ret>>

\* (variant) the status is left as it is when the wait begins
RunMarkRunning_Skipped(t) ==
    /\ pc[t] = "reg_update"
    /\ registryLock = NoTask
    /\ timeout' = [timeout EXCEPT ![t] = Some(TimeoutSeconds(request[t]))]
    /\ Goto(t, "wait")
    /\ UNCHANGED <<shared, ncalls, services, op, request, container, wait_result, outcome,
                   output, issued, ret>>

\* info.status = ContainerStatus::Running; then the timed wait is armed with
\* Duration::from_secs(timeout)
RunMarkRunning(t) ==
    /\ pc[t] = "reg_update"
    /\ registryLock = NoTask
    /\ running_containers' = SetStatus(running_containers, request[t].id, "Running")
    /\ timeout' = [timeout EXCEPT ![t] = Some(TimeoutSeconds(request[t]))]
    /\ Goto(t, "wait")
    /\ UNCHANGED <<client, clientLock, registryLock, containers, ncalls, services, op,
                   request, container, wait_result, outcome, output, issued, ret>>

\* (variant) a status other than 0 is reported as -1
RunWaitExit_NonZeroLost(t) ==
    /\ pc[t] = "wait"
    /\ containers[container[t]].state = "exited"
    /\ LET code == containers[container[t]].status_code
       IN /\ outcome' = [outcome EXCEPT ![t] =
                           [exit_code |-> IF code = 0 THEN 0 ELSE -1, timed_out |-> FALSE]]
          /\ wait_result' = [wait_result EXCEPT ![t] = Exited(code)]
    /\ Issue(t, "wait", container[t])
    /\ Goto(t, "logs")
    /\ UNCHANGED <<shared, ncalls, services, op, request, container, timeout, output, ret>>

\* Ok(Some(Ok(response))) => (response.status_code, false)
RunWaitExit(t) ==
    /\ pc[t] = "wait"
    /\ containers[container[t]].state = "exited"
    /\ outcome' = [outcome EXCEPT ![t] =
                     [exit_code |-> containers[container[t]].status_code, timed_out |-> FALSE]]
    /\ wait_result' = [wait_result EXCEPT ![t] = Exited(containers[container[t]].status_code)]
    /\ Issue(t, "wait", container[t])
    /\ Goto(t, "logs")
    /\ UNCHANGED <<shared, ncalls, services, op, request, container, timeout, output, ret>>

\* (variant) a wait without a status is handled like a timeout
RunWaitAmbiguous_AsTimeout(t) ==
    /\ pc[t] = "wait"
    /\ wait_result' = [wait_result EXCEPT ![t] = Ambiguous]
    /\ Issue(t, "wait", container[t])
    /\ Goto(t, "kill")
    /\ UNCHANGED <<shared, ncalls, services, op, request, container, timeout, outcome, output, ret>>

\* Ok(_) => (-1, false): the wait stream ended or yielded an error
RunWaitAmbiguous(t) ==
    /\ pc[t] = "wait"
    /\ outcome' = [outcome EXCEPT ![t] = [exit_code |-> -1, timed_out |-> FALSE]]
    /\ wait_result' = [wait_result EXCEPT ![t] = Ambiguous]
    /\ Issue(t, "wait", container[t])
    /\ Goto(t, "logs")
    /\ UNCHANGED <<shared, ncalls, services, op, request, container, timeout, output, ret>>

\* (variant) the timeout is recorded and the container is left to itself
RunWaitTimeout_SkipsKill(t) ==
    /\ pc[t] = "wait"
    /\ wait_result' = [wait_result EXCEPT ![t] = Elapsed]
    /\ outcome' = [outcome EXCEPT ![t] = [exit_code |-> -1, timed_out |-> TRUE]]
    /\ Issue(t, "wait", container[t])
    /\ Goto(t, "logs")
    /\ UNCHANGED <<shared, ncalls, services, op, request, container, timeout, output, ret>>

\* Err(_): the timeout elapsed first; next is kill_container(..).await
RunWaitTimeout(t) ==
    /\ pc[t] = "wait"
    /\ timeout[t].tag = "Some"
    /\ wait_result' = [wait_result EXCEPT ![t] = Elapsed]
    /\ Issue(t, "wait", container[t])
    /\ Goto(t, "kill")
    /\ UNCHANGED <<shared, ncalls, services, op, request, container, timeout, outcome, output, ret>>

\* (variant) an exit that arrived after the timeout replaces the outcome
RunKill_LateExitWins(t) ==
    /\ pc[t] = "kill"
    /\ UNCHANGED containers
    /\ outcome' = [outcome EXCEPT ![t] =
                     IF containers[container[t]].state = "exited"
                     THEN [exit_code |-> containers[container[t]].status_code, timed_out |-> FALSE]
                     ELSE [exit_code |-> -1, timed_out |-> TRUE]]
    /\ Issue(t, "kill", container[t])
    /\ Goto(t, "logs")
    /\ UNCHANGED <<client, clientLock, running_containers, registryLock, ncalls, services, op,
                   request, container, timeout, wait_result, output, ret>>

\* let _ = docker.kill_container(..).await; (-1, true)
RunKill(t) ==
    /\ pc[t] = "kill"
    /\ \/ /\ containers[container[t]].state = "running"
          /\ containers' = Killed(container[t])
       \/ UNCHANGED containers
    /\ outcome' = [outcome EXCEPT ![t] = [exit_code |-> -1, timed_out |-> TRUE]]
    /\ Issue(t, "kill", container[t])
    /\ Goto(t, "logs")
    /\ UNCHANGED <<client, clientLock, running_containers, registryLock, ncalls, services, op,
                   request, container, timeout, wait_result, output, ret>>

\* docker.logs(..) drained by the while-let loop
RunLogs(t) ==
    /\ pc[t] = "logs"
    /\ \E items \in LogStreams(container[t]) :
          \E readings \in (IF request[t].trace_io THEN Readings(Len(items))
                                                  ELSE {[i \in 1..Len(items) |-> 0]}) :
              /\ output' = [output EXCEPT ![t] =
                              Drain(NoOutput, items, readings, request[t].trace_io)]
              /\ issued' = [issued EXCEPT ![t] =
                              Append(@, [call |-> "logs", id |-> container[t],
                                         chunks |-> Len(SelectSeq(items, IsOkItem))])]
    /\ Goto(t, "remove")
    /\ UNCHANGED <<shared, ncalls, services, op, request, container, timeout, wait_result, outcome, ret>>

\* (variant) a failed removal is returned with the ? operator
RunRemove_Propagates(t) ==
    /\ pc[t] = "remove"
    /\ \/ /\ Removable(container[t])
          /\ containers' = Removed(container[t])
          /\ Goto(t, "reg_remove")
          /\ UNCHANGED <<clientLock, ret>>
       \/ /\ \E e \in EngineMsgs :
                Return(t, Err(ShellErrorDocker(Format("Failed to remove container: ", e))))
          /\ clientLock' = NoTask
          /\ UNCHANGED containers
    /\ Issue(t, "remove", container[t])
    /\ UNCHANGED <<client, running_containers, registryLock, ncalls, services, op,
                   request, container, timeout, wait_result, outcome, output>>

\* (variant) a failed removal is reported through the exit code
RunRemove_MasksExit(t) ==
    /\ pc[t] = "remove"
    /\ \/ /\ Removable(container[t])
          /\ containers' = Removed(container[t])
          /\ UNCHANGED outcome
       \/ /\ outcome' = [outcome EXCEPT ![t].exit_code = -1]
          /\ UNCHANGED containers
    /\ Issue(t, "remove", container[t])
    /\ Goto(t, "reg_remove")
    /\ UNCHANGED <<client, clientLock, running_containers, registryLock, ncalls, services, op,
                   request, container, timeout, wait_result, output, ret>>

\* let _ = docker.remove_container(..).await
RunRemove(t) ==
    /\ pc[t] = "remove"
    /\ \/ /\ Removable(container[t])
          /\ containers' = Removed(container[t])
       \/ UNCHANGED containers
    /\ Issue(t, "remove", container[t])
    /\ Goto(t, "reg_remove")
    /\ UNCHANGED <<client, clientLock, running_containers, registryLock, ncalls, services, op,
                   request, container, timeout, wait_result, outcome, output, ret>>

\* running.remove(&execution_id); Ok(ExecutionResult { .. })
RunUnregister(t) ==
    /\ pc[t] = "reg_remove"
    /\ registryLock = NoTask
    /\ running_containers' = Remove(running_containers, request[t].id)
    /\ Return(t, Ok(ExecutionResult(t)))
    /\ clientLock' = NoTask
    /\ UNCHANGED <<client, registryLock, containers, ncalls, services, op,
                   request, container, timeout, wait_result, outcome, output, issued>>

\* ------------------------------------------------------------------------
\* stop
\* ------------------------------------------------------------------------
\* let client = self.client.lock().await; docker = client.as_ref().ok_or_else(..)?
StopLock(t) ==
    /\ pc[t] = "s_lock"
    /\ clientLock = NoTask
    /\ IF client = "None"
       THEN /\ Return(t, Err(ShellErrorDocker(Literal("Docker not connected"))))
            /\ clientLock' = NoTask
       ELSE /\ Goto(t, "s_reg")
            /\ clientLock' = t
            /\ UNCHANGED ret
    /\ UNCHANGED <<client, running_containers, registryLock, containers, ncalls, services, op,
                   request, container, timeout, wait_result, outcome, output, issued>>

\* let running = self.running_containers.lock().await; running.get(execution_id)
StopLookup(t) ==
    /\ pc[t] = "s_reg"
    /\ registryLock = NoTask
    /\ IF request[t].id \in DOMAIN running_containers
       THEN /\ container' = [container EXCEPT ![t] = running_containers[request[t].id].id]
            /\ Goto(t, "s_kill")
            /\ registryLock' = t
            /\ UNCHANGED <<clientLock, ret>>
       ELSE /\ Return(t, Ok(TRUE))
            /\ registryLock' = NoTask
            /\ clientLock' = NoTask
            /\ UNCHANGED container
    /\ UNCHANGED <<client, running_containers, containers, ncalls, services, op,
                   request, timeout, wait_result, outcome, output, issued>>

\* (variant) stop takes the entry of the execution out of the registry
StopKill_Unregisters(t) ==
    /\ pc[t] = "s_kill"
    /\ \/ /\ containers[container[t]].state = "running"
          /\ containers' = Killed(container[t])
          /\ Return(t, Ok(TRUE))
       \/ /\ \E e \in EngineMsgs :
                Return(t, Err(ShellErrorDocker(Format("Failed to stop container: ", e))))
          /\ UNCHANGED containers
    /\ running_containers' = Remove(running_containers, request[t].id)
    /\ Issue(t, "kill", container[t])
    /\ registryLock' = NoTask
    /\ clientLock' = NoTask
    /\ UNCHANGED <<client, ncalls, services, op, request, container, timeout, wait_result, outcome, output>>

\* (variant) the result of the kill is dropped, as run does with its own kill
StopKill_IgnoresError(t) ==
    /\ pc[t] = "s_kill"
    /\ \/ /\ containers[container[t]].state = "running"
          /\ containers' = Killed(container[t])
       \/ UNCHANGED containers
    /\ Return(t, Ok(TRUE))
    /\ Issue(t, "kill", container[t])
    /\ registryLock' = NoTask
    /\ clientLock' = NoTask
    /\ UNCHANGED <<client, running_containers, ncalls, services, op, request, container, timeout, wait_result, outcome, output>>

\* docker.kill_container(&info.id, ..).await.map_err(..)?; Ok(())
StopKill(t) ==
    /\ pc[t] = "s_kill"
    /\ \/ /\ containers[container[t]].state = "running"
          /\ containers' = Killed(container[t])
          /\ Return(t, Ok(TRUE))
       \/ /\ \E e \in EngineMsgs :
                Return(t, Err(ShellErrorDocker(Format("Failed to stop container: ", e))))
          /\ UNCHANGED containers
    /\ Issue(t, "kill", container[t])
    /\ registryLock' = NoTask
    /\ clientLock' = NoTask
    /\ UNCHANGED <<client, running_containers, ncalls, services, op, request, container, timeout, wait_result, outcome, output>>

\* ------------------------------------------------------------------------
\* get_running
\* ------------------------------------------------------------------------
\* (variant) entries that are still Starting are left out
GetRunning_OnlyRunning(t) ==
    /\ pc[t] = "g_lock"
    /\ registryLock = NoTask
    /\ Return(t, Ok({i \in Values(running_containers) : i.status = "Running"}))
    /\ UNCHANGED <<shared, ncalls, services, op, request, container, timeout, wait_result, outcome, output, issued>>

GetRunning(t) ==
    /\ pc[t] = "g_lock"
    /\ registryLock = NoTask
    /\ Return(t, Ok(Values(running_containers)))
    /\ UNCHANGED <<shared, ncalls, services, op, request, container, timeout, wait_result, outcome, output, issued>>

Step(t) ==
        \/ CallConnect(t)
        \/ CallIsAvailable(t)
        \/ CallRun(t)
        \/ CallStop(t)
        \/ CallGetRunning(t)
        \/ ConnectFail(t)
        \/ ConnectPingOk(t)
        \/ ConnectStore(t)
        \/ IsAvailableLock(t)
        \/ IsAvailablePing(t)
        \/ RunLock(t)
        \/ RunCreateFail(t)
        \/ RunCreateOk(t)
        \/ RunRegister(t)
        \/ RunStartFail(t)
        \/ RunStartOk(t)
        \/ RunMarkRunning(t)
        \/ RunWaitExit(t)
        \/ RunWaitAmbiguous(t)
        \/ RunWaitTimeout(t)
        \/ RunKill(t)
        \/ RunLogs(t)
        \/ RunRemove(t)
        \/ RunUnregister(t)
        \/ StopLock(t)
        \/ StopLookup(t)
        \/ StopKill(t)
        \/ GetRunning(t)

Engine(c) ==
        \/ ContainerExit(c)
        \/ ContainerWrite(c)

\* A returned value is taken before anything else happens: Consume touches
\* only the slot of its own task, which no other step reads.
Quiet == \A t \in Tasks : ~Returned(t)

Next ==
    \/ \E t \in Tasks : Consume(t)
    \/ /\ Quiet
       /\ \E t \in Tasks : Step(t)
    \/ /\ Quiet
       /\ \E c \in DOMAIN containers : Engine(c)

Spec == Init /\ [][Next]_vars

\* ------------------------------------------------------------------------
\* One run, any request: a manager that holds a connection is asked once to
\* run a request with any limits, paths and flags; the container may write
\* one chunk more
\* ------------------------------------------------------------------------
InitAny ==
    /\ client = "Some"
    /\ clientLock = NoTask
    /\ running_containers = EmptyMap
    /\ registryLock = NoTask
    /\ containers = <<>>
    /\ ncalls = 0
    /\ op = [t \in Tasks |-> "none"]
    /\ pc = [t \in Tasks |-> "idle"]
    /\ request = [t \in Tasks |-> NoRequest]
    /\ container = [t \in Tasks |-> 0]
    /\ timeout = [t \in Tasks |-> NotArmed]
    /\ wait_result = [t \in Tasks |-> NotWaited]
    /\ outcome = [t \in Tasks |-> NoOutcome]
    /\ output = [t \in Tasks |-> NoOutput]
    /\ issued = [t \in Tasks |-> <<>>]
    /\ ret = [t \in Tasks |-> NoRet]
    /\ configs = EmptyMap
    /\ processes = EmptyMap
    /\ children = <<>>
    /\ child = [t \in Tasks |-> 0]

CallRunAny(t) ==
    /\ ncalls = 0
    /\ \E r \in AnyExecutionRequest : Invoke(t, "run", "r_lock", r)

\* LogOutput::StdIn is one of the kinds the loop of run passes over
AnyLogOutput == [stream : Streams \cup {"stdin"}, message : Chunks]

ContainerWriteMore(c) ==
    /\ containers[c].state = "running"
    /\ Len(containers[c].log) < MaxChunks + 1
    /\ \E l \in AnyLogOutput :
          containers' = [containers EXCEPT ![c].log = Append(@, l)]
    /\ UNCHANGED <<client, clientLock, running_containers, registryLock, ncalls, services, op, pc, locals>>

StepAny(t) ==
        \/ CallRunAny(t)
        \/ RunLock(t)
        \/ RunCreateFail(t)
        \/ RunCreateOk(t)
        \/ RunRegister(t)
        \/ RunStartFail(t)
        \/ RunStartOk(t)
        \/ RunMarkRunning(t)
        \/ RunWaitExit(t)
        \/ RunWaitAmbiguous(t)
        \/ RunWaitTimeout(t)
        \/ RunKill(t)
        \/ RunLogs(t)
        \/ RunRemove(t)
        \/ RunUnregister(t)

EngineAny(c) ==
        \/ ContainerExit(c)
        \/ ContainerWriteMore(c)

NextAny ==
    \/ \E t \in Tasks : Consume(t)
    \/ /\ Quiet
       /\ \E t \in Tasks : StepAny(t)
    \/ /\ Quiet
       /\ \E c \in DOMAIN containers : EngineAny(c)

SpecAny == InitAny /\ [][NextAny]_vars

\* ------------------------------------------------------------------------
\* The run_code command (commands/execution.rs)
\* ------------------------------------------------------------------------
\* ShellError::Execution(String)
ShellErrorExecution(msg) == [kind |-> "Execution", msg |-> msg]

\* a language name is the sequence of its characters
to_lowercase(s) ==
    [i \in DOMAIN s |-> IF s[i] = "P" THEN "p"
                        ELSE IF s[i] = "Y" THEN "y"
                        ELSE IF s[i] = "C" THEN "c"
                        ELSE s[i]]

Unsupported(language) ==
    Err(ShellErrorExecution(Format("Unsupported language: ", language)))

get_language_image(language) ==
    LET l == to_lowercase(language)
    IN IF l \in {<<"p","y","t","h","o","n">>, <<"p","y">>} THEN Ok("python:3.12-slim")
       ELSE IF l \in {<<"j","a","v","a","s","c","r","i","p","t">>, <<"j","s">>,
                      <<"n","o","d","e">>} THEN Ok("node:20-slim")
       ELSE IF l \in {<<"t","y","p","e","s","c","r","i","p","t">>, <<"t","s">>}
            THEN Ok("node:20-slim")
       ELSE IF l \in {<<"r","u","s","t">>, <<"r","s">>} THEN Ok("rust:1.75-slim")
       ELSE IF l \in {<<"g","o">>, <<"g","o","l","a","n","g">>} THEN Ok("golang:1.21-alpine")
       ELSE IF l = <<"j","a","v","a">> THEN Ok("eclipse-temurin:21-jdk")
       ELSE IF l \in {<<"c">>, <<"c","p","p">>, <<"c","+","+">>} THEN Ok("gcc:13")
       ELSE IF l \in {<<"r","u","b","y">>, <<"r","b">>} THEN Ok("ruby:3.3-slim")
       ELSE Unsupported(language)

get_run_command(language, entry_point) ==
    LET l == to_lowercase(language)
    IN IF l \in {<<"p","y","t","h","o","n">>, <<"p","y">>} THEN Ok(<<"python", entry_point>>)
       ELSE IF l \in {<<"j","a","v","a","s","c","r","i","p","t">>, <<"j","s">>,
                      <<"n","o","d","e">>} THEN Ok(<<"node", entry_point>>)
       ELSE IF l \in {<<"t","y","p","e","s","c","r","i","p","t">>, <<"t","s">>}
            THEN Ok(<<"npx", "tsx", entry_point>>)
       ELSE IF l \in {<<"r","u","s","t">>, <<"r","s">>} THEN Ok(<<"cargo", "run">>)
       ELSE IF l \in {<<"g","o">>, <<"g","o","l","a","n","g">>} THEN Ok(<<"go", "run", entry_point>>)
       ELSE IF l = <<"j","a","v","a">> THEN Ok(<<"java", entry_point>>)
       ELSE IF l = <<"c">>
            THEN Ok(<<"sh", "-c", <<"gcc ", entry_point, " -o /tmp/a.out && /tmp/a.out">> >>)
       ELSE IF l \in {<<"c","p","p">>, <<"c","+","+">>}
            THEN Ok(<<"sh", "-c", <<"g++ ", entry_point, " -o /tmp/a.out && /tmp/a.out">> >>)
       ELSE IF l \in {<<"r","u","b","y">>, <<"r","b">>} THEN Ok(<<"ruby", entry_point>>)
       ELSE Unsupported(language)

\* languages a caller sends: two spellings of a supported one, a name the
\* tables do not hold, a name that only begins like a supported one, none
Languages == {<<"p","y">>, <<"P","Y">>, <<"c","o","b","o","l">>, <<"p","y","3">>, <<>>}

RunCodeRequest ==
    [language : Languages, code : {"print(1)"}, project_path : {"/project"},
     entry_point : {None}, stdin : {None}, env : {None}, step_mode : {None},
     trace_io : {None}, timeout : {None}]

\* uuid::Uuid::new_v4().to_string(): longer than the prefix the container name takes
Uuids == {IdA, IdB}

\* ExecutionRequest { id, image, command, working_dir, .. } of run_code
ExecRequest(r, id, image, command) ==
    [id |-> id, image |-> image, command |-> command,
     working_dir |-> "/workspace", source_path |-> r.project_path,
     env |-> UnwrapOr(r.env, <<>>), memory_limit |-> None, cpu_quota |-> None,
     timeout |-> r.timeout, step_mode |-> UnwrapOr(r.step_mode, FALSE),
     trace_io |-> UnwrapOr(r.trace_io, TRUE)]

\* run_code begins with docker.is_available().await: the task executes
\* is_available with the RunCodeRequest at hand
CallRunCode(t) ==
    /\ ncalls < MaxCommands
    /\ \E r \in RunCodeRequest : Invoke(t, "is_available", "a_lock", r)

\* is_available has returned to run_code
Pending(t) ==
    /\ op[t] = "is_available"
    /\ pc[t] = "done"
    /\ request[t] \in RunCodeRequest

\* return Err(ShellError::Docker("Docker is not available. .."))
RunCodeUnavailable(t) ==
    /\ Pending(t)
    /\ ret[t] = Ok(FALSE)
    /\ op' = [op EXCEPT ![t] = "run_code"]
    /\ ret' = [ret EXCEPT ![t] = Err(ShellErrorDocker(Literal(
                  "Docker is not available. Please install and start Docker.")))]
    /\ UNCHANGED <<shared, ncalls, services, pc, request, container, timeout, wait_result,
                   outcome, output, issued>>

\* (variant) a language the tables do not hold falls back to a shell image
RunCodeReject_Fallback(t) ==
    /\ Pending(t)
    /\ ret[t] = Ok(TRUE)
    /\ get_language_image(request[t].language).tag = "Err"
    /\ \E id \in Uuids :
          request' = [request EXCEPT ![t] =
                         ExecRequest(request[t], id, "alpine:3", <<"sh", "main">>)]
    /\ op' = [op EXCEPT ![t] = "run"]
    /\ pc' = [pc EXCEPT ![t] = "r_lock"]
    /\ ret' = [ret EXCEPT ![t] = NoRet]
    /\ issued' = [issued EXCEPT ![t] = <<>>]
    /\ UNCHANGED <<shared, ncalls, services, container, timeout, wait_result, outcome, output>>

\* get_language_image(..)? or get_run_command(..)? returns the error
RunCodeReject(t) ==
    /\ Pending(t)
    /\ ret[t] = Ok(TRUE)
    /\ LET image == get_language_image(request[t].language)
           command == get_run_command(request[t].language,
                                      UnwrapOr(request[t].entry_point, "main"))
       IN /\ image.tag = "Err" \/ command.tag = "Err"
          /\ ret' = [ret EXCEPT ![t] = IF image.tag = "Err" THEN image ELSE command]
    /\ op' = [op EXCEPT ![t] = "run_code"]
    /\ UNCHANGED <<shared, ncalls, services, pc, request, container, timeout, wait_result,
                   outcome, output, issued>>

\* docker.run(exec_request).await
RunCodeRun(t) ==
    /\ Pending(t)
    /\ ret[t] = Ok(TRUE)
    /\ LET image == get_language_image(request[t].language)
           command == get_run_command(request[t].language,
                                      UnwrapOr(request[t].entry_point, "main"))
       IN /\ image.tag = "Ok" /\ command.tag = "Ok"
          /\ \E id \in Uuids :
                request' = [request EXCEPT ![t] =
                               ExecRequest(request[t], id, image.val, command.val)]
    /\ op' = [op EXCEPT ![t] = "run"]
    /\ pc' = [pc EXCEPT ![t] = "r_lock"]
    /\ ret' = [ret EXCEPT ![t] = NoRet]
    /\ issued' = [issued EXCEPT ![t] = <<>>]
    /\ UNCHANGED <<shared, ncalls, services, container, timeout, wait_result, outcome, output>>

RunCode(t) ==
        \/ RunCodeUnavailable(t)
        \/ RunCodeReject(t)
        \/ RunCodeRun(t)

\* (variant) running is reported only for an execution that has started
get_execution_status_Started(listed) ==
    [running |-> \E info \in listed : info.status = "Running",
     containers |-> listed]

\* get_execution_status: ExecutionStatus { running: !containers.is_empty(), containers }
\* for the list that docker.get_running() returned
get_execution_status(listed) ==
    [running |-> listed # {}, containers |-> listed]

StepCommand(t) ==
        \/ CallRunCode(t)
        \/ ConnectFail(t)
        \/ ConnectPingOk(t)
        \/ ConnectStore(t)
        \/ IsAvailableLock(t)
        \/ IsAvailablePing(t)
        \/ RunLock(t)
        \/ RunCreateFail(t)
        \/ RunCreateOk(t)
        \/ RunRegister(t)
        \/ RunStartFail(t)
        \/ RunStartOk(t)
        \/ RunMarkRunning(t)
        \/ RunWaitExit(t)
        \/ RunWaitAmbiguous(t)
        \/ RunWaitTimeout(t)
        \/ RunKill(t)
        \/ RunLogs(t)
        \/ RunRemove(t)
        \/ RunUnregister(t)

\* what follows the return of is_available inside run_code awaits nothing
\* and touches only the task's own slot: it is taken like a returned value
NextCommand ==
    \/ \E t \in Tasks : ~Pending(t) /\ Consume(t)
    \/ \E t \in Tasks : RunCode(t)
    \/ /\ Quiet
       /\ \E t \in Tasks : StepCommand(t)
    \/ /\ Quiet
       /\ \E c \in DOMAIN containers : Engine(c)

SpecCommand == Init /\ [][NextCommand]_vars

\* ------------------------------------------------------------------------
\* SecurityPolicy::is_path_allowed (security.rs)
\* ------------------------------------------------------------------------
\* an absolute path is the sequence of its components below the root
Components == {"home", "etc", "x", ".."}

RECURSIVE PathsOfLen(_)
PathsOfLen(n) ==
    IF n = 0 THEN {<<>>}
    ELSE {Append(p, c) : p \in PathsOfLen(n - 1), c \in Components}

Paths == UNION {PathsOfLen(n) : n \in 0..MaxPathLen}

\* policies: the home directory allowed and a system directory denied, as
\* in SecurityPolicy::default(); and a denied directory inside an allowed one
Policies ==
    {[allowed_paths |-> << <<"home">> >>, denied_paths |-> << <<"etc">> >>],
     [allowed_paths |-> << <<"home">>, <<"x">> >>,
      denied_paths |-> << <<"etc">>, <<"home", "x">> >>]}

\* where a path leads when the file system holds no symbolic links: each
\* ".." leaves the directory reached so far (the root is its own parent)
RECURSIVE Resolve(_, _)
Resolve(reached, path) ==
    IF path = <<>> THEN reached
    ELSE IF Head(path) = ".."
         THEN Resolve(IF reached = <<>> THEN <<>> ELSE SubSeq(reached, 1, Len(reached) - 1),
                      Tail(path))
         ELSE Resolve(Append(reached, Head(path)), Tail(path))

\* path.canonicalize(): an error when nothing exists at the path
canonicalize(path, exists) ==
    IF exists THEN Ok(Resolve(<<>>, path)) ELSE Err("NotFound")

\* Path::starts_with: base is a prefix of path, component by component
starts_with(path, base) ==
    /\ Len(base) <= Len(path)
    /\ \A i \in DOMAIN base : path[i] = base[i]

\* for x in list { if path.starts_with(x) { return .. } }
AnyStartsWith(path, list) == \E i \in DOMAIN list : starts_with(path, list[i])

is_path_allowed(self, path, exists) ==
    LET c == canonicalize(path, exists)
        canonical == IF c.tag = "Ok" THEN c.val ELSE path
    IN IF AnyStartsWith(canonical, self.denied_paths) THEN FALSE
       ELSE IF AnyStartsWith(canonical, self.allowed_paths) THEN TRUE
       ELSE FALSE

\* a call of is_path_allowed: the policy, the path, and whether the file
\* system holds something at the path
PathQueries == [self : Policies, path : Paths, exists : BOOLEAN]

CallIsPathAllowed(t) ==
    /\ \A u \in Tasks : pc[u] = "idle"
    /\ \E q \in PathQueries : Invoke(t, "is_path_allowed", "p_check", q)

IsPathAllowed(t) ==
    /\ pc[t] = "p_check"
    /\ Return(t, Ok(is_path_allowed(request[t].self, request[t].path, request[t].exists)))
    /\ UNCHANGED <<shared, ncalls, services, op, request, container, timeout, wait_result,
                   outcome, output, issued>>

NextPolicy ==
    \/ \E t \in Tasks : Consume(t)
    \/ \E t \in Tasks : CallIsPathAllowed(t)
    \/ \E t \in Tasks : IsPathAllowed(t)

SpecPolicy == Init /\ [][NextPolicy]_vars

\* ------------------------------------------------------------------------
\* Scheduling: the tokio runtime polls every task that can proceed, the
\* tokio Mutex hands the lock to its waiters in FIFO order, and every engine
\* call returns
\* ------------------------------------------------------------------------
\* the steps of a call after its invocation
Progress(t) ==
        \/ ConnectFail(t)
        \/ ConnectPingOk(t)
        \/ ConnectStore(t)
        \/ IsAvailableLock(t)
        \/ IsAvailablePing(t)
        \/ RunLock(t)
        \/ RunCreateFail(t)
        \/ RunCreateOk(t)
        \/ RunRegister(t)
        \/ RunStartFail(t)
        \/ RunStartOk(t)
        \/ RunMarkRunning(t)
        \/ RunWaitExit(t)
        \/ RunWaitAmbiguous(t)
        \/ RunWaitTimeout(t)
        \/ RunKill(t)
        \/ RunLogs(t)
        \/ RunRemove(t)
        \/ RunUnregister(t)
        \/ StopLock(t)
        \/ StopLookup(t)
        \/ StopKill(t)
        \/ GetRunning(t)

Fairness ==
    \A t \in Tasks :
        /\ SF_vars(Quiet /\ Progress(t))
        /\ WF_vars(Consume(t))

\* the calls whose completion is followed: one execution id of full length,
\* one of three bytes and one of four characters in eight bytes, nothing
\* traced, and a container that writes nothing
CallRunLive(t) ==
    \E r \in {q \in ExecutionRequest : ~q.trace_io}, id \in {IdA, IdShort, IdWide} :
        Invoke(t, "run", "r_lock", [r EXCEPT !.id = id])

CallStopLive(t) == Invoke(t, "stop", "s_lock", [NoRequest EXCEPT !.id = IdA])

StepLive(t) ==
        \/ CallConnect(t)
        \/ CallIsAvailable(t)
        \/ CallRunLive(t)
        \/ CallStopLive(t)
        \/ CallGetRunning(t)
        \/ Progress(t)

NextLive ==
    \/ \E t \in Tasks : Consume(t)
    \/ /\ Quiet
       /\ \E t \in Tasks : StepLive(t)
    \/ /\ Quiet
       /\ \E c \in DOMAIN containers : ContainerExit(c)

SpecLive == Init /\ [][NextLive]_vars /\ Fairness

\* ------------------------------------------------------------------------
\* ServiceManager (services.rs): external processes kept by service id.
\* No guard is held over an await point, so each locked block is one step;
\* start releases the process map between its check and its insert
\* ------------------------------------------------------------------------
ServiceIds == {"lsp", "grader"}

\* ShellError::Service(String)
ShellErrorService(msg) == [kind |-> "Service", msg |-> msg]

ServiceConfig(id) == [id |-> id, service_type |-> "Custom", command |-> "node"]

ServiceProcess(id, c) ==
    [id |-> id, service_type |-> "Custom", child |-> c, started_at |-> <<"spawned", c>>]

\* std::process::Child, as the operating system sees it
NewChild(id) == [id |-> id, state |-> "alive"]

\* the request of a call that names a service
Named(id) == [NoRequest EXCEPT !.id = id]

CallRegister(t) == \E id \in ServiceIds : Invoke(t, "register", "v_register", Named(id))
CallServiceStart(t) == \E id \in ServiceIds : Invoke(t, "start", "v_configs", Named(id))
CallServiceStop(t) == \E id \in ServiceIds : Invoke(t, "stop_service", "v_stop", Named(id))
CallIsRunning(t) == \E id \in ServiceIds : Invoke(t, "is_running", "v_query", Named(id))

\* configs.insert(config.id.clone(), config)
Register(t) ==
    /\ pc[t] = "v_register"
    /\ configs' = Insert(configs, request[t].id, ServiceConfig(request[t].id))
    /\ Return(t, Ok(TRUE))
    /\ UNCHANGED <<shared, ncalls, op, request, container, timeout, wait_result, outcome,
                   output, issued, processes, children, child>>

\* configs.get(id).ok_or_else(..)?.clone(); drop(configs)
ServiceStartConfig(t) ==
    /\ pc[t] = "v_configs"
    /\ IF request[t].id \in DOMAIN configs
       THEN /\ Goto(t, "v_check")
            /\ UNCHANGED ret
       ELSE Return(t, Err(ShellErrorService(Format("Service not found: ", request[t].id))))
    /\ UNCHANGED <<shared, ncalls, op, request, container, timeout, wait_result, outcome,
                   output, issued, services>>

\* if processes.contains_key(id) { return Ok(()) }; drop(processes)
ServiceStartCheck(t) ==
    /\ pc[t] = "v_check"
    /\ IF request[t].id \in DOMAIN processes
       THEN Return(t, Ok(TRUE))
       ELSE /\ Goto(t, "v_spawn")
            /\ UNCHANGED ret
    /\ UNCHANGED <<shared, ncalls, op, request, container, timeout, wait_result, outcome,
                   output, issued, services>>

\* cmd.spawn().map_err(..)?: the process is started, or the error returned
ServiceStartSpawn(t) ==
    /\ pc[t] = "v_spawn"
    /\ \/ /\ children' = Append(children, NewChild(request[t].id))
          /\ child' = [child EXCEPT ![t] = Len(children) + 1]
          /\ Goto(t, "v_insert")
          /\ UNCHANGED ret
       \/ /\ \E e \in EngineMsgs :
                Return(t, Err(ShellErrorService(Format("Failed to start service: ", e))))
          /\ UNCHANGED <<children, child>>
    /\ UNCHANGED <<shared, ncalls, op, request, container, timeout, wait_result, outcome,
                   output, issued, configs, processes>>

\* processes.insert(id.to_string(), process); Ok(())
ServiceStartInsert(t) ==
    /\ pc[t] = "v_insert"
    /\ processes' = Insert(processes, request[t].id, ServiceProcess(request[t].id, child[t]))
    /\ child' = [child EXCEPT ![t] = 0]
    /\ Return(t, Ok(TRUE))
    /\ UNCHANGED <<shared, ncalls, op, request, container, timeout, wait_result, outcome,
                   output, issued, configs, children>>

\* (variant) the child is killed first and the entry removed only when that
\* succeeded
ServiceStop_KillsFirst(t) ==
    /\ pc[t] = "v_stop"
    /\ IF request[t].id \in DOMAIN processes
       THEN \/ /\ children' = [children EXCEPT ![processes[request[t].id].child].state = "killed"]
               /\ processes' = Remove(processes, request[t].id)
               /\ Return(t, Ok(TRUE))
            \/ /\ \E e \in EngineMsgs :
                     Return(t, Err(ShellErrorService(Format("Failed to stop service: ", e))))
               /\ UNCHANGED <<processes, children>>
       ELSE /\ Return(t, Ok(TRUE))
            /\ UNCHANGED <<processes, children>>
    /\ UNCHANGED <<shared, ncalls, op, request, container, timeout, wait_result, outcome,
                   output, issued, configs, child>>

\* if let Some(mut process) = processes.remove(id) { process.child.kill().map_err(..)? }; Ok(())
ServiceStop(t) ==
    /\ pc[t] = "v_stop"
    /\ IF request[t].id \in DOMAIN processes
       THEN /\ processes' = Remove(processes, request[t].id)
            /\ \/ /\ children' = [children EXCEPT ![processes[request[t].id].child].state = "killed"]
                  /\ Return(t, Ok(TRUE))
               \/ /\ \E e \in EngineMsgs :
                        Return(t, Err(ShellErrorService(Format("Failed to stop service: ", e))))
                  /\ UNCHANGED children
       ELSE /\ Return(t, Ok(TRUE))
            /\ UNCHANGED <<processes, children>>
    /\ UNCHANGED <<shared, ncalls, op, request, container, timeout, wait_result, outcome,
                   output, issued, configs, child>>

\* processes.contains_key(id)
ServiceIsRunning(t) ==
    /\ pc[t] = "v_query"
    /\ Return(t, Ok(request[t].id \in DOMAIN processes))
    /\ UNCHANGED <<shared, ncalls, op, request, container, timeout, wait_result, outcome,
                   output, issued, services>>

\* a child process ends by itself; the process map is not told
ChildExit(c) ==
    /\ children[c].state = "alive"
    /\ children' = [children EXCEPT ![c].state = "exited"]
    /\ UNCHANGED <<shared, ncalls, op, pc, locals, configs, processes, child>>

StepService(t) ==
        \/ CallRegister(t)
        \/ CallServiceStart(t)
        \/ CallServiceStop(t)
        \/ CallIsRunning(t)
        \/ Register(t)
        \/ ServiceStartConfig(t)
        \/ ServiceStartCheck(t)
        \/ ServiceStartSpawn(t)
        \/ ServiceStartInsert(t)
        \/ ServiceStop(t)
        \/ ServiceIsRunning(t)

NextService ==
    \/ \E t \in Tasks : Consume(t)
    \/ /\ Quiet
       /\ \E t \in Tasks : StepService(t)
    \/ /\ Quiet
       /\ \E c \in DOMAIN children : ChildExit(c)

SpecService == Init /\ [][NextService]_vars

\* ------------------------------------------------------------------------
\* Properties
\* ------------------------------------------------------------------------
Running(t) == op[t] = "run"
Stopping(t) == op[t] = "stop"
Registered(id) == id \in DOMAIN running_containers
KillIssued(t) == \E i \in DOMAIN issued[t] : issued[t][i].call = "kill"
StartedPcs == {"reg_update", "wait", "kill", "logs", "remove", "reg_remove"}
EnginePcs == {"c_ping", "a_ping", "create", "start", "wait", "kill", "logs", "remove", "s_kill"}
IsCreateError(r) == r.tag = "Err" /\ r.err.msg[1] = "Failed to create container: "
IsStartError(r) == r.tag = "Err" /\ r.err.msg[1] = "Failed to start container: "

\* C1: from the successful start of its container until run returns the
\* registry holds the entry of request.id, and once run has returned, with a
\* result or with an error, the registry holds no entry for request.id.
C1_EntryFromStartToReturn ==
    \A t \in Tasks : Running(t) =>
        /\ pc[t] \in StartedPcs => Registered(request[t].id)
        /\ pc[t] = "done" => ~Registered(request[t].id)

\* C2: a stop(id) that is called while run(id) waits for its container is
\* not held up by that run: the engine handle it needs is not locked by it.
C2_StopActsDuringWait ==
    \A s, t \in Tasks :
        (/\ Stopping(s) /\ pc[s] = "s_lock"
         /\ Running(t) /\ pc[t] = "wait"
         /\ request[s].id = request[t].id) => clientLock # t

\* C3: a run that waits for its container does not hold up the run of
\* another execution identifier: that one can take the engine handle.
C3_RunsProceedConcurrently ==
    \A t, u \in Tasks :
        (/\ Running(t) /\ pc[t] = "wait"
         /\ Running(u) /\ pc[u] = "r_lock"
         /\ request[t].id # request[u].id) => clientLock # t

\* C4: when the timeout elapses before the engine reports the exit, run
\* issues a kill for its container and the outcome is timed_out = true and
\* exit_code = -1, whatever status the container has or gets afterwards.
C4_TimeoutOutcome ==
    \A t \in Tasks : (Running(t) /\ wait_result[t] = Elapsed) =>
        /\ pc[t] \in {"kill", "logs", "remove", "reg_remove", "done"}
        /\ pc[t] # "kill" =>
              /\ [call |-> "kill", id |-> container[t]] \in {issued[t][i] : i \in DOMAIN issued[t]}
              /\ outcome[t] = [exit_code |-> -1, timed_out |-> TRUE]
        /\ pc[t] = "done" =>
              /\ ret[t].tag = "Ok"
              /\ ret[t].val.timed_out
              /\ ret[t].val.exit_code = -1

\* a run has returned timed out although its container had exited with
\* status 0 by itself before the kill
C4_Witness ==
    \E t \in Tasks :
        /\ Running(t) /\ pc[t] = "done" /\ wait_result[t] = Elapsed
        /\ containers[container[t]].state = "exited"
        /\ containers[container[t]].status_code = 0
        /\ ret[t].val.timed_out

C6_StartFailureUnregisters ==
    \A t \in Tasks :
        (Running(t) /\ pc[t] = "done" /\ IsStartError(ret[t])) => ~Registered(request[t].id)

\* C7: when the engine fails to create the container, run returns an error
\* that wraps the engine's message, and no step of the call up to that
\* return changes the registry.
C7_CreateFailure ==
    [][\A t \in Tasks : Running(t) =>
          /\ (pc[t] = "r_lock" /\ pc'[t] # "r_lock") => running_containers' = running_containers
          /\ pc[t] = "create" => running_containers' = running_containers
          /\ (pc[t] = "create" /\ pc'[t] = "done") =>
                \E e \in EngineMsgs \cup {"conflict"} :
                    ret'[t] = Err([kind |-> "Docker", msg |-> <<"Failed to create container: ", e>>])
      ]_vars

\* a run has returned the error of a failed create
C7_Witness ==
    \E t \in Tasks :
        /\ Running(t) /\ pc[t] = "done" /\ IsCreateError(ret[t])
        /\ ~Registered(request[t].id)

\* C8: stop(id) for an id that is not in the registry returns success and
\* issues no kill, in every state of the manager.
C8_StopUnknownSucceeds ==
    \A t \in Tasks :
        (Stopping(t) /\ pc[t] = "done" /\ ~Registered(request[t].id)) =>
            ret[t].tag = "Ok" /\ ~KillIssued(t)

\* C9: no task holds the engine-handle lock or the registry lock while it
\* awaits an engine call.
C9_NoLockAcrossEngineCall ==
    \A t \in Tasks : pc[t] \in EnginePcs => (clientLock # t /\ registryLock # t)

\* the text of one stream in a log, chunk after chunk
RECURSIVE StreamText(_, _)
StreamText(log, stream) ==
    IF log = <<>> THEN <<>>
    ELSE (IF Head(log).stream = stream THEN FromUtf8Lossy(Head(log).message) ELSE <<>>)
         \o StreamText(Tail(log), stream)

C10_OwnEntry ==
    \A t \in Tasks :
        (Running(t) /\ pc[t] \in {"start"} \cup StartedPcs) =>
            /\ Registered(request[t].id)
            /\ running_containers[request[t].id].id = container[t]
            /\ running_containers[request[t].id].execution_id = request[t].id
            /\ containers[container[t]].state # "removed" =>
                  containers[container[t]].name = ContainerName(request[t].id)

C10_OwnEffects ==
    \A t \in Tasks : (Running(t) /\ pc'[t] # pc[t]) =>
        /\ \A k \in ExecIds \ {request[t].id} :
              /\ Registered(k) <=> k \in DOMAIN running_containers'
              /\ Registered(k) => running_containers'[k] = running_containers[k]
        /\ (pc[t] = "wait" /\ pc'[t] = "logs") =>
              outcome'[t].exit_code \in {-1, containers[container[t]].status_code}
        /\ (pc[t] = "logs" /\ pc'[t] = "remove") =>
              \E n \in 0..Len(containers[container[t]].log) :
                  LET part == SubSeq(containers[container[t]].log, 1, n)
                  IN /\ output'[t].stdout = StreamText(part, "stdout")
                     /\ output'[t].stderr = StreamText(part, "stderr")
        /\ (pc[t] = "reg_remove" /\ pc'[t] = "done") =>
              /\ ret'[t].tag = "Ok"
              /\ ret'[t].val.id = request[t].id
              /\ ret'[t].val.exit_code = outcome[t].exit_code
              /\ ret'[t].val.stdout = output[t].stdout
              /\ ret'[t].val.stderr = output[t].stderr

\* C10: of two runs with distinct identifiers each one inserts, updates and
\* removes only the registry entry of its own identifier, that entry holds
\* the container created for it, and its result carries its own identifier
\* and the exit code and log text of its own container.
C10_Isolation == []C10_OwnEntry /\ [][C10_OwnEffects]_vars

\* a run returns its result while the entry of another identifier is in the
\* registry and the container of that other execution still exists
C10_Witness ==
    \E t \in Tasks :
        /\ Running(t) /\ pc[t] = "done" /\ ret[t].tag = "Ok"
        /\ \E k \in ExecIds \ {request[t].id} :
              /\ Registered(k)
              /\ containers[running_containers[k].id].state # "removed"

\* the containers the engine holds that have been started and not removed
Started(c) == containers[c].state \in {"running", "exited"}

\* C11: every started container was created with network mode "none" and
\* with exactly one mount, the source path of the request of its run bound
\* read-only at /workspace, whatever the image, command, environment, limits
\* and flags of the request are
C11_IsolatedReadOnly ==
    /\ \A c \in DOMAIN containers :
          Started(c) =>
              LET hc == containers[c].config.host_config
              IN /\ hc.network_mode = "none"
                 /\ Len(hc.mounts) = 1
                 /\ hc.mounts[1].target = "/workspace"
                 /\ hc.mounts[1].typ = "BIND"
                 /\ hc.mounts[1].read_only = TRUE
    /\ \A t \in Tasks :
          (Running(t) /\ container[t] # 0 /\ Started(container[t])) =>
              containers[container[t]].config.host_config.mounts[1].source
                  = request[t].source_path

C11_Witness ==
    \E t \in Tasks :
        /\ pc[t] = "wait"
        /\ containers[container[t]].state = "running"
        /\ request[t].image = "node:20-slim"
        /\ request[t].step_mode
        /\ request[t].env # <<>>
        /\ request[t].memory_limit = Some(1024)
        /\ request[t].source_path = "/"

IsExecutionResult(r) ==
    /\ r.tag = "Ok"
    /\ DOMAIN r.val = {"id", "exit_code", "stdout", "stderr", "timed_out", "trace"}

\* C12: once start_container has succeeded, every step of run leads to a
\* later step of run or to the return of an ExecutionResult, never to an
\* error or a panic, whatever the wait, the kill, the log stream and the
\* removal answer
C12_NoErrorAfterStart ==
    [][\A t \in Tasks :
          (Running(t) /\ pc[t] \in StartedPcs) =>
              /\ pc'[t] \in StartedPcs \cup {"done"}
              /\ pc'[t] = "done" => IsExecutionResult(ret'[t]) /\ ret'[t].val.id = request[t].id]_vars

\* run has returned a result after a timeout although the kill and the
\* removal failed (the container still runs) and the log stream broke off
\* before the one chunk the container had written
C12_Witness ==
    \E t \in Tasks :
        /\ Running(t)
        /\ pc[t] = "done"
        /\ IsExecutionResult(ret[t])
        /\ wait_result[t] = Elapsed
        /\ ret[t].val.timed_out
        /\ containers[container[t]].state = "running"
        /\ containers[container[t]].log # <<>>
        /\ ret[t].val.stdout = <<>>
        /\ ret[t].val.stderr = <<>>

\* C13: from the remove_container call on, whether the engine removes the
\* container or not, exit code, timed_out flag, stdout and stderr stay what
\* they were before the call; the call is followed by the removal of the
\* registry entry, and the result returned carries those values while the
\* registry no longer holds the execution id
C13_RemovalFailureIgnored ==
    [][\A t \in Tasks :
          (Running(t) /\ pc[t] \in {"remove", "reg_remove"}) =>
              /\ outcome'[t] = outcome[t]
              /\ output'[t] = output[t]
              /\ pc[t] = "remove" => pc'[t] \in {"remove", "reg_remove"}
              /\ pc[t] = "reg_remove" => pc'[t] \in {"reg_remove", "done"}
              /\ pc'[t] = "done" =>
                    /\ IsExecutionResult(ret'[t])
                    /\ ret'[t].val.exit_code = outcome[t].exit_code
                    /\ ret'[t].val.timed_out = outcome[t].timed_out
                    /\ ret'[t].val.stdout = output[t].stdout
                    /\ ret'[t].val.stderr = output[t].stderr
                    /\ request[t].id \notin DOMAIN running_containers']_vars

\* run has returned exit code 1 and the output of its container, which the
\* engine did not remove, and the entry is gone
C13_Witness ==
    \E t \in Tasks :
        /\ Running(t)
        /\ pc[t] = "done"
        /\ IsExecutionResult(ret[t])
        /\ containers[container[t]].state = "exited"
        /\ ret[t].val.exit_code = 1
        /\ ~ret[t].val.timed_out
        /\ ret[t].val.stdout # <<>>
        /\ ~Registered(request[t].id)

NotConnected == Err(ShellErrorDocker(Literal("Docker not connected")))

\* C14: run returns the not-connected error only after it has tried to
\* connect and that attempt (the connect or its ping) has failed
C14_RunConnectsLazily ==
    \A t \in Tasks :
        (Running(t) /\ pc[t] = "done" /\ ret[t] = NotConnected) =>
            \E i \in DOMAIN issued[t] :
                /\ issued[t][i].call \in {"connect", "ping"}
                /\ ~issued[t][i].ok

Probing(t) == op[t] = "is_available"
LastProbe(t) == issued[t][Len(issued[t])]

\* C15: is_available never panics and returns a boolean, never an error,
\* which is the answer of its last probe. With a stored handle it returns
\* whether the ping succeeded and leaves the handle as it is; without one, a
\* failed connect or ping returns false and stores nothing, and a successful
\* one stores the handle and returns true
C15_IsAvailableTotal ==
    /\ [](\A t \in Tasks :
            Probing(t) =>
                /\ pc[t] # "panicked"
                /\ pc[t] = "done" =>
                      /\ ret[t] \in {Ok(TRUE), Ok(FALSE)}
                      /\ issued[t] # <<>>
                      /\ ret[t].val = LastProbe(t).ok
                      /\ ret[t].val => client = "Some")
    /\ [][\A t \in Tasks :
            (Probing(t) /\ pc[t] # "done" /\ pc'[t] = "done") =>
                /\ pc[t] = "a_ping" => client = "Some" /\ client' = client
                /\ pc[t] = "c_ping" => ret'[t] = Ok(FALSE) /\ client' = client
                /\ pc[t] = "c_lock" => ret'[t] = Ok(TRUE) /\ client' = "Some"
                /\ pc[t] \in {"a_ping", "c_ping", "c_lock"}]_vars

\* is_available has returned false after a failed connection attempt and no
\* handle is stored
C15_Witness ==
    \E t \in Tasks :
        /\ Probing(t)
        /\ pc[t] = "done"
        /\ ret[t] = Ok(FALSE)
        /\ ~LastProbe(t).ok
        /\ client = "None"

\* C16: is_available never has to wait for a run: while a run waits for its
\* container to exit, a call of is_available that wants the client handle is
\* not held up by a guard of that run
C16_IsAvailableNotBlockedByRun ==
    \A t \in Tasks :
        (Probing(t) /\ pc[t] = "a_lock") =>
            ~\E u \in Tasks : Running(u) /\ pc[u] = "wait" /\ clientLock = u

Listing(t) == op[t] = "get_running"

CompleteEntry(info) ==
    /\ DOMAIN info = {"id", "execution_id", "started_at", "status"}
    /\ info.id \in DOMAIN containers
    /\ info.execution_id \in ExecIds
    /\ info.started_at = <<"registered", info.id>>
    /\ info.status \in {"Starting", "Running"}

\* C17: get_running returns exactly the entries the registry holds at the
\* step that reads it, each with a container id the engine has given out,
\* its execution id, its start time and its status; a list once returned
\* stays what it is while the registry goes on changing
C17_Snapshot ==
    /\ [][\A t \in Tasks :
            (Listing(t) /\ pc[t] = "g_lock" /\ pc'[t] # "g_lock") =>
                /\ pc'[t] = "done"
                /\ ret'[t].tag = "Ok"
                /\ ret'[t].val = {running_containers[k] : k \in DOMAIN running_containers}
                /\ \A info \in ret'[t].val : CompleteEntry(info)
                /\ \A k \in DOMAIN running_containers : running_containers[k].execution_id = k
                /\ UNCHANGED running_containers]_vars
    /\ [][\A t \in Tasks :
            (Listing(t) /\ pc[t] = "done" /\ pc'[t] = "done") => ret'[t] = ret[t]]_vars

\* get_running has returned the entry of a run that is waiting for its
\* container
C17_Witness ==
    \E t \in Tasks, u \in Tasks :
        /\ Listing(t)
        /\ pc[t] = "done"
        /\ Running(u)
        /\ pc[u] = "wait"
        /\ ret[t].val = {ContainerInfo(container[u], request[u].id, "Running")}

IsOutChunk(l) == l.stream \in {"stdout", "stderr"}

NonDecreasing(events) ==
    \A i \in DOMAIN events, j \in DOMAIN events :
        i <= j => events[i].timestamp_ms <= events[j].timestamp_ms

\* the IO events are those of the stdout and stderr chunks of received, one
\* each and in that order
TracesChunks(events, received) ==
    LET chunks == SelectSeq(received, IsOutChunk)
    IN /\ Len(events) = Len(chunks)
       /\ \A i \in DOMAIN events :
             /\ events[i].stream = chunks[i].stream
             /\ events[i].data = FromUtf8Lossy(chunks[i].message)
       /\ NonDecreasing(events)

\* C18: the result of run has a trace exactly when the request has trace_io;
\* the trace has no steps, and its IO events are the ones collected from the
\* log stream: for the chunks received before the stream ended or broke off,
\* one event per stdout or stderr chunk, in the order of delivery, with
\* timestamps that never decrease (nothing is collected without trace_io)
C18_Trace ==
    /\ [](\A t \in Tasks :
            (Running(t) /\ pc[t] = "done" /\ ret[t].tag = "Ok") =>
                LET trace == ret[t].val.trace
                IN /\ (trace.tag = "Some") <=> request[t].trace_io
                   /\ trace.tag \in {"Some", "None"}
                   /\ trace.tag = "Some" =>
                         /\ trace.steps = <<>>
                         /\ trace.io_events = output[t].io_events
                         /\ NonDecreasing(trace.io_events))
    /\ [][\A t \in Tasks :
            (Running(t) /\ pc[t] = "logs" /\ pc'[t] # "logs") =>
                \E n \in 0..Len(containers[container[t]].log) :
                    LET received == SubSeq(containers[container[t]].log, 1, n)
                    IN /\ output'[t].stdout = StreamText(received, "stdout")
                       /\ output'[t].stderr = StreamText(received, "stderr")
                       /\ IF request[t].trace_io
                          THEN TracesChunks(output'[t].io_events, received)
                          ELSE output'[t].io_events = <<>>]_vars

\* a traced run has returned two events, the first of stdout and the second,
\* later one of stderr (with invalid UTF-8 replaced)
C18_Witness ==
    \E t \in Tasks :
        /\ Running(t)
        /\ pc[t] = "done"
        /\ ret[t].tag = "Ok"
        /\ ret[t].val.trace.tag = "Some"
        /\ Len(ret[t].val.trace.io_events) = 2
        /\ ret[t].val.trace.io_events[1].stream = "stdout"
        /\ ret[t].val.trace.io_events[2].stream = "stderr"
        /\ ret[t].val.trace.io_events[2].data = <<"REPLACEMENT">>
        /\ ret[t].val.trace.io_events[1].timestamp_ms < ret[t].val.trace.io_events[2].timestamp_ms

\* the value of an optional field of the request, or what stands in for it
Given(opt, otherwise) == IF opt = None THEN otherwise ELSE opt.val

\* C19: the container of a run is created with the memory limit of the
\* request or else 256 MiB, the CPU quota of the request or else 50000, and
\* a CPU period of 100000; the wait is armed with the timeout of the request
\* or else 30 seconds; no step of run changes the request
C19_Defaults ==
    /\ [](\A t \in Tasks :
            /\ (Running(t) /\ container[t] # 0 /\ containers[container[t]].state # "removed") =>
                  LET hc == containers[container[t]].config.host_config
                  IN /\ hc.memory = Given(request[t].memory_limit, 256 * 1024 * 1024)
                     /\ hc.cpu_quota = Given(request[t].cpu_quota, 50000)
                     /\ hc.cpu_period = 100000
            /\ (Running(t) /\ pc[t] \in {"wait", "kill", "logs", "remove", "reg_remove"}) =>
                  timeout[t] = [tag |-> "Some", val |-> Given(request[t].timeout, 30)])
    /\ [][\A t \in Tasks :
            (Running(t) /\ pc'[t] # "idle") => request'[t] = request[t]]_vars

\* a run waits for a container created with the default memory limit and
\* the CPU quota of its request, under the default timeout
C19_Witness ==
    \E t \in Tasks :
        /\ Running(t)
        /\ pc[t] = "wait"
        /\ request[t].memory_limit = None
        /\ request[t].cpu_quota = Some(100000)
        /\ request[t].timeout = None
        /\ containers[container[t]].config.host_config.memory = 268435456
        /\ containers[container[t]].config.host_config.cpu_quota = 100000
        /\ timeout[t] = Some(30)

\* the entry of id is the one task t inserted
OwnEntry(t, id) ==
    /\ Running(t)
    /\ container[t] # 0
    /\ request[t].id = id
    /\ Registered(id)
    /\ running_containers[id].id = container[t]

\* C20: every execution id in the registry refers to one container that the
\* engine has created and not removed; an entry leaves the registry only by
\* the step of the run that inserted it which follows that run's
\* remove_container call, and it has left the registry when that run has
\* returned (removed once and not less)
C20_RegistryMatchesEngine ==
    /\ [](\A id \in DOMAIN running_containers :
            /\ running_containers[id].id \in DOMAIN containers
            /\ containers[running_containers[id].id].state # "removed")
    /\ [][\A id \in DOMAIN running_containers :
            id \notin DOMAIN running_containers' =>
                \E t \in Tasks :
                    /\ OwnEntry(t, id)
                    /\ pc[t] = "reg_remove"
                    /\ pc'[t] = "done"
                    /\ issued[t][Len(issued[t])].call = "remove"]_vars
    /\ [](\A t \in Tasks, id \in ExecIds : pc[t] = "done" => ~OwnEntry(t, id))

\* the names the match arms of get_language_image hold
LanguageTable ==
    {<<"p","y","t","h","o","n">>, <<"p","y">>,
     <<"j","a","v","a","s","c","r","i","p","t">>, <<"j","s">>, <<"n","o","d","e">>,
     <<"t","y","p","e","s","c","r","i","p","t">>, <<"t","s">>,
     <<"r","u","s","t">>, <<"r","s">>, <<"g","o">>, <<"g","o","l","a","n","g">>,
     <<"j","a","v","a">>, <<"c">>, <<"c","p","p">>, <<"c","+","+">>,
     <<"r","u","b","y">>, <<"r","b">>}

\* task t serves run_code for a language outside the table (in any case of
\* its letters)
Outside(t) ==
    /\ request[t] \in RunCodeRequest
    /\ \A l \in LanguageTable :
          \/ Len(l) # Len(request[t].language)
          \/ \E i \in DOMAIN l : l[i] # request[t].language[i]
                                  /\ <<l[i], request[t].language[i]>>
                                        \notin {<<"p","P">>, <<"y","Y">>, <<"c","C">>}

UnsupportedError(language) ==
    [tag |-> "Err", err |-> [kind |-> "Execution", msg |-> <<"Unsupported language: ", language>>]]

DockerUnavailable ==
    [tag |-> "Err", err |-> [kind |-> "Docker",
         msg |-> <<"Docker is not available. Please install and start Docker.">>]]

Acts(t) == pc'[t] # pc[t] \/ op'[t] # op[t]

\* run_code with a language outside the table never calls run, and no step
\* of it creates a container or changes the registry
NeverRuns ==
    [][\A t \in Tasks :
          Outside(t) =>
              /\ op'[t] # "run"
              /\ request'[t] \in {request[t], NoRequest}
              /\ Acts(t) => UNCHANGED <<containers, running_containers>>]_vars

\* C21 as claimed: run_code answers a language outside the table with the
\* unsupported-language error, never calls run for it, creates no container
\* and leaves the registry as it is
C21_UnsupportedRejected ==
    /\ [](\A t \in Tasks :
            (Outside(t) /\ op[t] = "run_code" /\ pc[t] = "done") =>
                ret[t] = UnsupportedError(request[t].language))
    /\ NeverRuns

\* C21 amended: the answer is the unsupported-language error when the engine
\* is available, and the Docker-not-available error when is_available said
\* no; in both cases run is never called, no container is created and the
\* registry is left as it is
C21_UnsupportedNeverRuns ==
    /\ [](\A t \in Tasks :
            (Outside(t) /\ op[t] = "run_code" /\ pc[t] = "done") =>
                /\ issued[t] # <<>>
                /\ ret[t] = IF issued[t][Len(issued[t])].ok
                            THEN UnsupportedError(request[t].language)
                            ELSE DockerUnavailable)
    /\ NeverRuns

\* run_code has rejected "py3" on a manager whose engine answered, with a
\* container of an earlier command still there
C21_Witness ==
    \E t \in Tasks :
        /\ op[t] = "run_code"
        /\ pc[t] = "done"
        /\ request[t] \in RunCodeRequest
        /\ request[t].language = <<"p","y","3">>
        /\ ret[t] = UnsupportedError(<<"p","y","3">>)
        /\ client = "Some"
        /\ Len(containers) = 1

Checking(t) == op[t] = "is_path_allowed"

\* the place a path leads to lies in directory base or below
LiesUnder(path, base) ==
    LET place == Resolve(<<>>, path)
    IN Len(base) <= Len(place) /\ SubSeq(place, 1, Len(base)) = base

\* C22: is_path_allowed answers false for every path that leads below a
\* denied path, also when it leads below an allowed path as well, and for
\* every path that leads below no allowed path
C22_DeniedTakesPrecedence ==
    \A t \in Tasks :
        (Checking(t) /\ pc[t] = "done") =>
            LET self == request[t].self
                path == request[t].path
            IN /\ (\E i \in DOMAIN self.denied_paths : LiesUnder(path, self.denied_paths[i]))
                      => ret[t] = Ok(FALSE)
               /\ (\A i \in DOMAIN self.allowed_paths : ~LiesUnder(path, self.allowed_paths[i]))
                      => ret[t] = Ok(FALSE)

CallsIssued(t) == [i \in DOMAIN issued[t] |-> issued[t][i].call]

\* C23: when run is about to issue start_container, and whenever it has
\* issued it, the registry holds for request.id an entry with the id the
\* create call returned, with status Starting until the start has succeeded;
\* while run waits for the exit (and until it removes the entry) the status
\* is Running; no entry ever goes from Running to Starting
C23_StatusOrder ==
    /\ [](\A t \in Tasks :
            Running(t) =>
                /\ pc[t] = "start" =>
                      /\ CallsIssued(t) = <<"create">>
                      /\ OwnEntry(t, request[t].id)
                      /\ running_containers[request[t].id].status = "Starting"
                /\ pc[t] \in {"wait", "kill", "logs", "remove", "reg_remove"} =>
                      /\ OwnEntry(t, request[t].id)
                      /\ running_containers[request[t].id].status = "Running")
    /\ [][\A t \in Tasks :
            (Running(t) /\ Len(issued'[t]) > Len(issued[t])
                        /\ issued'[t][Len(issued'[t])].call = "start") =>
                /\ OwnEntry(t, request[t].id)
                /\ running_containers[request[t].id].status = "Starting"]_vars
    /\ [][\A id \in DOMAIN running_containers :
            (running_containers[id].status = "Running" /\ id \in DOMAIN running_containers')
                => running_containers'[id].status = "Running"]_vars

\* a run waits for its container with its entry marked Running while the
\* entry of an earlier run, whose start failed, still says Starting
C23_Witness ==
    \E t \in Tasks :
        /\ Running(t)
        /\ pc[t] = "wait"
        /\ CallsIssued(t) = <<"create", "start">>
        /\ running_containers[request[t].id] = ContainerInfo(container[t], request[t].id, "Running")
        /\ \E id \in DOMAIN running_containers : running_containers[id].status = "Starting"

IsPrefix(s, full) == Len(s) <= Len(full) /\ SubSeq(full, 1, Len(s)) = s

WithoutKill == <<"create", "start", "wait", "logs", "remove">>
WithKill == <<"create", "start", "wait", "kill", "logs", "remove">>

\* C24: the engine calls a run has issued are at every moment a beginning of
\* create, start, wait, logs, remove, or of the same with kill after wait,
\* each call issued by a step of its own and one at a time; a run that
\* returns a result has issued all of them, with kill exactly when the wait
\* timed out; the registry entry leaves the registry in the step that
\* follows the remove call and in which run returns
C24_CallOrder ==
    /\ [](\A t \in Tasks :
            Running(t) =>
                /\ IsPrefix(CallsIssued(t), WithoutKill) \/ IsPrefix(CallsIssued(t), WithKill)
                /\ (pc[t] = "done" /\ ret[t].tag = "Ok") =>
                      /\ CallsIssued(t) = IF wait_result[t] = Elapsed THEN WithKill
                                                                      ELSE WithoutKill
                      /\ ret[t].val.timed_out = (wait_result[t] = Elapsed)
                      /\ \A i \in DOMAIN issued[t] : issued[t][i].id = container[t]
                      /\ ~OwnEntry(t, request[t].id)
                /\ pc[t] = "reg_remove" =>
                      /\ CallsIssued(t)[Len(issued[t])] = "remove"
                      /\ OwnEntry(t, request[t].id))
    /\ [][\A t \in Tasks :
            Running(t) =>
                /\ Len(issued'[t]) <= Len(issued[t]) + 1
                /\ Len(issued'[t]) = Len(issued[t]) + 1 =>
                      /\ pc'[t] # pc[t]
                      /\ \A u \in Tasks \ {t} : issued'[u] = issued[u]]_vars

\* a run has returned after its timeout: wait, kill, logs and remove in a row
C24_Witness ==
    \E t \in Tasks :
        /\ Running(t)
        /\ pc[t] = "done"
        /\ ret[t].tag = "Ok"
        /\ wait_result[t] = Elapsed
        /\ CallsIssued(t) = WithKill
        /\ containers[container[t]].state = "removed"

\* C25: from the moment the wait of a run has ended without a status, the
\* outcome is exit code -1 and timed_out false and the run issues no kill;
\* it goes on to the logs and the removal, and the result it returns carries
\* that outcome after the logs and remove calls
C25_AmbiguousWait ==
    /\ [](\A t \in Tasks :
            (Running(t) /\ wait_result[t] = Ambiguous) =>
                /\ outcome[t] = [exit_code |-> -1, timed_out |-> FALSE]
                /\ ~KillIssued(t)
                /\ pc[t] \in {"logs", "remove", "reg_remove", "done"}
                /\ pc[t] = "done" =>
                      /\ IsExecutionResult(ret[t])
                      /\ ret[t].val.exit_code = -1
                      /\ ret[t].val.timed_out = FALSE
                      /\ CallsIssued(t) = WithoutKill)
    /\ [][\A t \in Tasks :
            (Running(t) /\ wait_result[t] = Ambiguous /\ pc'[t] # pc[t]) =>
                <<pc[t], pc'[t]>> \in {<<"logs", "remove">>, <<"remove", "reg_remove">>,
                                       <<"reg_remove", "done">>, <<"done", "idle">>}]_vars

\* a run whose wait ended without a status has returned -1 with the output
\* of its container, which still runs
C25_Witness ==
    \E t \in Tasks :
        /\ Running(t)
        /\ pc[t] = "done"
        /\ wait_result[t] = Ambiguous
        /\ ret[t].val.exit_code = -1
        /\ ~ret[t].val.timed_out
        /\ ret[t].val.stderr # <<>>
        /\ containers[container[t]].state = "running"

\* the step a stop call takes next
StopStep(s) == StopLock(s) \/ StopLookup(s) \/ StopKill(s)

LogsCall(t) == issued[t][CHOOSE i \in DOMAIN issued[t] : issued[t][i].call = "logs"]

\* C27: whatever the wait yielded, a run that returns a result has fetched
\* the logs; when the logs call is over, stdout is the text of all stdout
\* chunks the stream delivered, in their order, and stderr that of all
\* stderr chunks, including the chunks that came after an error item; the
\* result carries these texts
C27_LogsDrained ==
    \A t \in Tasks :
        Running(t) =>
            /\ (pc[t] = "done" /\ ret[t].tag = "Ok") =>
                  /\ wait_result[t] \in {Exited(0), Exited(1), Exited(SIGKILLED), Ambiguous, Elapsed}
                  /\ "logs" \in {CallsIssued(t)[i] : i \in DOMAIN issued[t]}
                  /\ ret[t].val.stdout = output[t].stdout
                  /\ ret[t].val.stderr = output[t].stderr
            /\ pc[t] = "remove" =>
                  LET delivered == SubSeq(containers[container[t]].log, 1, LogsCall(t).chunks)
                  IN /\ output[t].stdout = StreamText(delivered, "stdout")
                     /\ output[t].stderr = StreamText(delivered, "stderr")

\* after a timeout and the kill, a run has returned both stdout chunks of
\* its container, in their order
C27_Witness ==
    \E t \in Tasks :
        /\ Running(t)
        /\ pc[t] = "done"
        /\ ret[t].tag = "Ok"
        /\ wait_result[t] = Elapsed
        /\ LogsCall(t).chunks = 2
        /\ ret[t].val.stdout = <<"a", "REPLACEMENT">>
        /\ ret[t].val.stderr = <<>>

\* C28: the timed wait of a run is armed when the container has been started
\* (not before) and from then on its deadline stays what it is until the run
\* has returned, whatever stop calls are made; in every state in which the
\* run waits, with or without a stop call under way that has not killed the
\* container, the timeout can fire, and once it has fired the kill can be
\* issued
C28_DeadlineIndependentOfStop ==
    /\ [](\A t \in Tasks :
            Running(t) =>
                /\ pc[t] \in {"r_lock", "create", "reg_insert", "start", "reg_update"}
                      => timeout[t] = NotArmed
                /\ pc[t] \in {"wait", "kill", "logs", "remove", "reg_remove"}
                      => timeout[t].tag = "Some"
                /\ pc[t] = "wait" => ENABLED RunWaitTimeout(t)
                /\ pc[t] = "kill" => ENABLED RunKill(t))
    /\ [][\A t \in Tasks :
            (Running(t) /\ timeout[t].tag = "Some" /\ pc'[t] # "idle")
                => timeout'[t] = timeout[t]]_vars

\* the timeout of a run has fired and its kill has ended the container while
\* a stop call for the same id is under way and has not killed anything
C28_Witness ==
    \E t \in Tasks, s \in Tasks :
        /\ Running(t)
        /\ pc[t] = "logs"
        /\ wait_result[t] = Elapsed
        /\ KillIssued(t)
        /\ containers[container[t]].status_code = SIGKILLED
        /\ Stopping(s)
        /\ request[s].id = request[t].id
        /\ pc[s] = "s_lock"
        /\ ~KillIssued(s)

\* C29: when run registers an execution the registry holds no entry for its
\* id, and an entry that stays in the registry is never replaced: it keeps
\* its container id and its start time; a further run with an id that is
\* registered ends without touching the entry
C29_InsertIfAbsent ==
    /\ [](\A t \in Tasks :
            (Running(t) /\ pc[t] = "reg_insert") => ~Registered(request[t].id))
    /\ [][\A id \in DOMAIN running_containers :
            id \in DOMAIN running_containers' =>
                /\ running_containers'[id].id = running_containers[id].id
                /\ running_containers'[id].started_at = running_containers[id].started_at
                /\ running_containers'[id].execution_id = id]_vars

\* a further run with a registered id has been refused by the engine at
\* create_container because the name is taken, and the entry still names
\* the container of the run that registered it
C29_Witness ==
    \E t \in Tasks :
        /\ Running(t)
        /\ pc[t] = "done"
        /\ IsCreateError(ret[t])
        /\ ret[t].err.msg[2] = "conflict"
        /\ Registered(request[t].id)
        /\ running_containers[request[t].id].id \in DOMAIN containers
        /\ containers[running_containers[request[t].id].id].name = ContainerName(request[t].id)


\* the container of a registered execution is still in the engine
Exists(id) ==
    /\ Registered(id)
    /\ running_containers[id].id \in DOMAIN containers
    /\ containers[running_containers[id].id].state # "removed"

InProgress(t) == pc[t] \notin {"idle", "done", "panicked"}

\* the await points at which a task asks for the client mutex, and those at
\* which it asks for the registry mutex
HandlePcs == {"c_lock", "a_lock", "r_lock", "s_lock"}
RegistryPcs == {"reg_insert", "reg_update", "reg_remove", "s_reg", "g_lock"}

\* C31: a task that holds both locks took the handle lock first: it never
\* asks for the handle lock while it holds the registry lock, and run and
\* stop ask for the registry lock while they hold the handle lock; and under
\* fair scheduling every call that was invoked returns
C31_NoDeadlock ==
    /\ [](\A t \in Tasks :
            /\ registryLock = t => (clientLock = t /\ pc[t] \notin HandlePcs)
            /\ pc[t] \in HandlePcs => (clientLock # t /\ registryLock # t)
            /\ pc[t] \in RegistryPcs \ {"g_lock"} => clientLock = t)
    /\ [][\A t \in Tasks :
            /\ (clientLock' = t /\ clientLock # t) => registryLock # t
            /\ (registryLock' = t /\ registryLock # t) => clientLock = t]_vars
    /\ \A t \in Tasks : InProgress(t) ~> Returned(t)

\* a run that holds the handle lock is about to take the registry lock while
\* another call waits for the handle lock
C31_Witness ==
    \E s, t \in Tasks :
        /\ Running(t)
        /\ pc[t] = "reg_insert"
        /\ clientLock = t
        /\ registryLock = NoTask
        /\ InProgress(s)
        /\ pc[s] \in HandlePcs

\* the engine calls of one kind that the invocation of task t has made
IssuedOf(t, call) == {issued[t][i].id : i \in {j \in DOMAIN issued[t] : issued[t][j].call = call}}

\* C32: when run has returned, with a result or with an error, every
\* container it created has been passed to remove_container
C32_CreatedIsRemoved ==
    \A t \in Tasks :
        (Running(t) /\ pc[t] = "done")
            => (IssuedOf(t, "create") \ {0}) \subseteq IssuedOf(t, "remove")

IsStopError(r) ==
    /\ r.tag = "Err"
    /\ r.err.kind = "Docker"
    /\ Len(r.err.msg) = 2
    /\ r.err.msg[1] = "Failed to stop container: "
    /\ r.err.msg[2] \in EngineMsgs

\* C33: the step in which stop hears from the engine about its kill ends the
\* call: with Ok(()) when the engine killed the container, and with the
\* error "Failed to stop container: <engine message>" when it did not
C33_StopReportsKill ==
    [][\A t \in Tasks :
          (Stopping(t) /\ pc[t] = "s_kill" /\ pc'[t] # "s_kill")
              => /\ pc'[t] = "done"
                 /\ container[t] = running_containers[request[t].id].id
                 /\ IF containers'[container[t]] # containers[container[t]]
                    THEN ret'[t] = Ok(TRUE)
                    ELSE IsStopError(ret'[t])]_vars

\* stop found the entry a failed start left behind, the engine refused to kill
\* a container that is not running, and stop returned the wrapped error
C33_Witness ==
    \E t \in Tasks :
        /\ Stopping(t)
        /\ pc[t] = "done"
        /\ KillIssued(t)
        /\ Registered(request[t].id)
        /\ containers[running_containers[request[t].id].id].state = "created"
        /\ IsStopError(ret[t])

\* task t takes a step of the call it executes
Moves(t) == pc'[t] # pc[t] /\ pc[t] # "idle" /\ ~Returned(t)

\* C34: no step of stop changes the registry, whatever its outcome; the
\* registry changes only in the three steps of run that insert, update and
\* remove the entry
C34_StopLeavesRegistry ==
    [][/\ \A t \in Tasks :
              (Stopping(t) /\ Moves(t)) => running_containers' = running_containers
       /\ running_containers' # running_containers
              => \E t \in Tasks :
                     /\ Running(t)
                     /\ Moves(t)
                     /\ pc[t] \in {"reg_insert", "reg_update", "reg_remove"}]_vars

\* stop has returned after a kill that failed, and the entry it found is
\* in the registry as run left it
C34_Witness ==
    \E t \in Tasks :
        /\ Stopping(t)
        /\ pc[t] = "done"
        /\ ret[t].tag = "Err"
        /\ KillIssued(t)
        /\ Registered(request[t].id)
        /\ running_containers[request[t].id].status = "Starting"
        /\ running_containers[request[t].id].id = container[t]

\* the entry of the run of task t is among the listed ones, with the status
\* that run has given it so far
ListsRunOf(list, t) ==
    \E info \in list :
        /\ info.execution_id = request[t].id
        /\ info.id = container[t]
        /\ info.status = IF pc[t] \in {"start", "reg_update"} THEN "Starting" ELSE "Running"

\* get_running can answer while the run of another task is at one of the
\* given await points: run does not hold the registry lock there
ListableAt(pcs) ==
    \A g, t \in Tasks :
        (Listing(g) /\ pc[g] = "g_lock" /\ Running(t) /\ pc[t] \in pcs)
            => (registryLock = NoTask /\ ENABLED GetRunning(g))

\* the status command built on the answer of get_running lists the entry of
\* every run that is at one of the given await points, and reports running
\* exactly when its list is not empty
ListedStep(pcs) ==
    \A g \in Tasks :
        (Listing(g) /\ pc[g] = "g_lock" /\ pc'[g] = "done")
            => /\ get_execution_status(ret'[g].val).running
                     = (Cardinality(get_execution_status(ret'[g].val).containers) > 0)
               /\ \A t \in Tasks :
                     (Running(t) /\ pc[t] \in pcs)
                         => ListsRunOf(get_execution_status(ret'[g].val).containers, t)

EnginePcsOfRun == {"create", "start", "wait", "kill", "logs", "remove"}
RegisteredPcs == {"start", "reg_update", "wait", "kill", "logs", "remove", "reg_remove"}

RECURSIVE EventText(_, _)
EventText(events, stream) ==
    IF events = <<>> THEN <<>>
    ELSE (IF Head(events).stream = stream THEN Head(events).data ELSE <<>>)
         \o EventText(Tail(events), stream)

Starting(t) == op[t] = "start"

\* the children that are recorded in the process map or still in the hands
\* of the start call that spawned them
Tracked ==
    {processes[id].child : id \in DOMAIN processes}
        \cup {child[t] : t \in {u \in Tasks : Starting(u) /\ pc[u] = "v_insert"}}

\* C37: a start for an id that is in the process map spawns nothing and
\* returns success; no start spawns a process for an id that is in the map,
\* and no start puts its child in the place of one that is recorded, so that
\* a child leaves the map only when stop takes it out
C37_OneProcessPerService ==
    [][\A t \in Tasks :
          /\ (Starting(t) /\ pc[t] = "v_check" /\ pc'[t] # "v_check"
                /\ request[t].id \in DOMAIN processes)
                => (pc'[t] = "done" /\ ret'[t] = Ok(TRUE) /\ UNCHANGED <<processes, children>>)
          /\ (Starting(t) /\ pc[t] = "v_spawn" /\ pc'[t] = "v_insert")
                => request[t].id \notin DOMAIN processes
          /\ (Starting(t) /\ pc[t] = "v_insert" /\ pc'[t] # "v_insert")
                => /\ request[t].id \notin DOMAIN processes
                   /\ Tracked \subseteq Tracked']_vars

StoppingService(t) == op[t] = "stop_service"

IsServiceStopError(r) ==
    /\ r.tag = "Err"
    /\ r.err.kind = "Service"
    /\ r.err.msg[1] = "Failed to stop service: "

\* C38: stop of an id that is not in the process map returns success and
\* changes nothing; stop of an id that is in the map takes its entry out and
\* returns success when the child was killed and the kill error when it was
\* not; either way the map holds no entry for the id when stop has returned,
\* which is what is_running reads
C38_StopUnregisters ==
    /\ [](\A t \in Tasks :
            (StoppingService(t) /\ pc[t] = "done")
                => /\ request[t].id \notin DOMAIN processes
                   /\ ret[t] = Ok(TRUE) \/ IsServiceStopError(ret[t]))
    /\ [][\A t \in Tasks :
            (StoppingService(t) /\ pc[t] = "v_stop" /\ pc'[t] # "v_stop")
                => /\ pc'[t] = "done"
                   /\ configs' = configs
                   /\ IF request[t].id \notin DOMAIN processes
                      THEN ret'[t] = Ok(TRUE) /\ processes' = processes /\ children' = children
                      ELSE /\ DOMAIN processes' = DOMAIN processes \ {request[t].id}
                           /\ \A id \in DOMAIN processes' : processes'[id] = processes[id]
                           /\ \/ /\ ret'[t] = Ok(TRUE)
                                 /\ children'[processes[request[t].id].child].state = "killed"
                              \/ /\ IsServiceStopError(ret'[t])
                                 /\ children' = children]_vars

\* stop has returned the kill error: the entry is gone from the map while
\* the child it named is still alive
C38_Witness ==
    \E t \in Tasks :
        /\ StoppingService(t)
        /\ pc[t] = "done"
        /\ IsServiceStopError(ret[t])
        /\ request[t].id \notin DOMAIN processes
        /\ \E c \in DOMAIN children :
              children[c].id = request[t].id /\ children[c].state = "alive"

\* C39 (as stated): a run whose id has fewer than 8 characters gets no
\* further than the building of the container name, where it aborts (or it
\* has found no handle and returned the not-connected error)
C39_ShortIdAborts ==
    \A t \in Tasks :
        (Running(t) /\ Len(request[t].id) < 8)
            => \/ pc[t] \in {"r_lock", "panicked"}
               \/ pc[t] = "done" /\ ret[t] = NotConnected

\* the first 8 bytes of the id are not a prefix of whole characters: the id
\* has fewer than 8 bytes, or its 8th byte is inside a character
Unsliceable(id) == ~is_char_boundary(id, 8)

\* C39 (amended): on a manager that holds a handle, a run whose id cannot be
\* cut after 8 bytes panics at the building of the name: it has made no engine
\* call, touched neither registry nor engine, and holds no lock; without a
\* handle it returns the not-connected error; no other run panics; and under
\* fair scheduling every call that was invoked, before or after, returns
C39_UnsliceableIdPanics ==
    /\ [](\A t \in Tasks :
            Running(t) =>
                /\ Unsliceable(request[t].id)
                      => /\ pc[t] \in {"r_lock", "panicked", "done"}
                         /\ pc[t] = "done" => ret[t] = NotConnected
                         /\ issued[t] = <<>>
                         /\ clientLock # t /\ registryLock # t
                /\ pc[t] = "panicked" => (Unsliceable(request[t].id) /\ client = "Some"))
    /\ [][\A t \in Tasks :
            (Running(t) /\ Unsliceable(request[t].id) /\ pc[t] = "r_lock" /\ pc'[t] # "r_lock")
                => /\ pc'[t] = IF client = "Some" THEN "panicked" ELSE "done"
                   /\ UNCHANGED <<client, clientLock, running_containers, registryLock, containers>>]_vars
    /\ \A t \in Tasks : InProgress(t) ~> Returned(t)

\* a run with an id of three bytes has panicked on a connected manager: the
\* handle lock is free and nothing was created or registered
C39_Witness ==
    \E t \in Tasks :
        /\ Running(t)
        /\ pc[t] = "panicked"
        /\ request[t].id = IdShort
        /\ client = "Some"
        /\ clientLock = NoTask
        /\ containers = <<>>
        /\ running_containers = EmptyMap

====
